---------------------------- MODULE Spec2Model ----------------------------
(***************************************************************************)
(* Marker-based code injection engine of bakery: the marker parser         *)
(* (src/inject/parser.ts), the injection engine (injectContent,            *)
(* validateNoNewMarkers, injectJson) and the injection processor           *)
(* (processSingleInjection, processInjections).                            *)
(*                                                                         *)
(* A string is a sequence of lexemes.  A lexeme is one character ("\n",    *)
(* " ", "\t", a marker-name character, another character) or one of the    *)
(* literal pieces the marker regular expressions are made of ("//", "#",   *)
(* "<!--", "-->", "/*", "*/", "BAKERY:INJECT:", "BAKERY:END:").  Indices   *)
(* are 0-based as in the source; slice(s, a, b) is String.prototype.slice. *)
(* A path is a string too: its segments and the "/" between them.          *)
(***************************************************************************)
EXTENDS Integers, Sequences, FiniteSets, TLC

\* ------------------------------------------------------------------ strings

NL == "\n"
INJ == "BAKERY:INJECT:"
END == "BAKERY:END:"

\* \s inside one line (a line never holds "\n")
Whitespace == {" ", "\t"}
\* [a-z0-9-]
NameChars == {"a", "b", "e"}

Min(S) == CHOOSE m \in S : \A k \in S : m <= k

slice(s, a, b) == SubSeq(s, a + 1, b)

sliceFrom(s, a) == SubSeq(s, a + 1, Len(s))

endsWith(s, c) == Len(s) > 0 /\ s[Len(s)] = c

\* String.prototype.split(sep): "" splits into one empty piece
RECURSIVE splitOn(_, _)
splitOn(s, sep) ==
  IF \A i \in 1..Len(s) : s[i] # sep THEN <<s>>
  ELSE LET i == Min({k \in 1..Len(s) : s[k] = sep})
       IN  <<SubSeq(s, 1, i - 1)>> \o splitOn(SubSeq(s, i + 1, Len(s)), sep)

split(s) == splitOn(s, NL)

\* Array.prototype.join('\n')
RECURSIVE join(_)
join(lines) ==
  IF Len(lines) = 0 THEN <<>>
  ELSE IF Len(lines) = 1 THEN lines[1]
  ELSE lines[1] \o <<NL>> \o join(Tail(lines))

\* the first index >= p of line whose lexeme is not in S (Len(line) + 1 if none)
skip(line, p, S) ==
  LET stops == {k \in p..Len(line) : line[k] \notin S}
  IN  IF stops = {} THEN (IF p > Len(line) THEN p ELSE Len(line) + 1) ELSE Min(stops)

\* ------------------------------------------------------------------- parser

Styles == <<"js", "python", "html", "css">>

Opener(style) ==
  CASE style = "js" -> "//" [] style = "python" -> "#"
    [] style = "html" -> "<!--" [] style = "css" -> "/*"

\* "" : the pattern has no closing piece
Closer(style) ==
  CASE style = "js" -> "" [] style = "python" -> ""
    [] style = "html" -> "-->" [] style = "css" -> "*/"

NoMatch == [matched |-> FALSE, indent |-> <<>>, name |-> <<>>]

\* line.match(/^(\s*)<opener>\s*<keyword>([a-z0-9-]+)\s*<closer>\s*$/): p1 is the
\* opener's place, p2 the keyword's, p3 the end of the name, p4 the closer's
\* place (or the end), p5 the end
matchPattern(line, style, keyword) ==
  LET hasCloser == Closer(style) # ""
      m5(p1, p2, p3, p4, p5) ==
        IF /\ p1 <= Len(line) /\ line[p1] = Opener(style)
           /\ p2 <= Len(line) /\ line[p2] = keyword
           /\ p3 > p2 + 1
           /\ (hasCloser => (p4 <= Len(line) /\ line[p4] = Closer(style)))
           /\ p5 = Len(line) + 1
        THEN [matched |-> TRUE, indent |-> SubSeq(line, 1, p1 - 1),
              name |-> SubSeq(line, p2 + 1, p3 - 1)]
        ELSE NoMatch
      m4(p1, p2, p3, p4) ==
        m5(p1, p2, p3, p4, IF hasCloser THEN skip(line, p4 + 1, Whitespace) ELSE p4)
      m3(p1, p2, p3) == m4(p1, p2, p3, skip(line, p3, Whitespace))
      m2(p1, p2) == m3(p1, p2, skip(line, p2 + 1, NameChars))
      m1(p1) == m2(p1, skip(line, p1 + 1, Whitespace))
  IN  m1(skip(line, 1, Whitespace))

NoMarker == [type |-> "none", name |-> <<>>, indent |-> <<>>, style |-> "js"]

\* the inner loop of findAllMarkers: the dialects in order, start before end,
\* the first match wins
RECURSIVE matchLine(_, _)
matchLine(line, k) ==
  LET pick(startMatch, endMatch) ==
        IF startMatch.matched
        THEN [type |-> "start", name |-> startMatch.name,
              indent |-> startMatch.indent, style |-> Styles[k]]
        ELSE IF endMatch.matched
        THEN [type |-> "end", name |-> endMatch.name,
              indent |-> endMatch.indent, style |-> Styles[k]]
        ELSE matchLine(line, k + 1)
  IN  IF k > Len(Styles) THEN NoMarker
      ELSE pick(matchPattern(line, Styles[k], INJ), matchPattern(line, Styles[k], END))

\* the outer loop of findAllMarkers from line lineNum (0-based) at offset charIndex
RECURSIVE findMarkersFrom(_, _, _)
findMarkersFrom(lines, lineNum, charIndex) ==
  LET push(m, lineStartIndex, lineEndIndex) ==
        (IF m.type = "none" THEN <<>>
         ELSE <<[type |-> m.type, name |-> m.name, indent |-> m.indent,
                 lineNumber |-> lineNum, lineStartIndex |-> lineStartIndex,
                 lineEndIndex |-> lineEndIndex, style |-> m.style]>>)
        \o findMarkersFrom(lines, lineNum + 1, lineEndIndex + 1)
  IN  IF lineNum >= Len(lines) THEN <<>>
      ELSE push(matchLine(lines[lineNum + 1], 1), charIndex,
                charIndex + Len(lines[lineNum + 1]))

findAllMarkers(content) == findMarkersFrom(split(content), 0, 0)

\* the names of the START markers in first-occurrence order (the keys of startMarkers)
RECURSIVE startNames(_, _)
startNames(markers, seen) ==
  IF Len(markers) = 0 THEN <<>>
  ELSE LET m == Head(markers)
       IN  IF m.type = "start" /\ m.name \notin seen
           THEN <<m.name>> \o startNames(Tail(markers), seen \cup {m.name})
           ELSE startNames(Tail(markers), seen)

\* the 1-based lines of the START markers called name
startLinesOf(markers, name) ==
  LET IsStart(m) == m.type = "start" /\ m.name = name
      starts == SelectSeq(markers, IsStart)
  IN  [i \in 1..Len(starts) |-> starts[i].lineNumber + 1]

RECURSIVE numList(_)
numList(ns) ==
  IF Len(ns) = 0 THEN <<>>
  ELSE IF Len(ns) = 1 THEN <<ToString(ns[1])>>
  ELSE <<ToString(ns[1]), ", ">> \o numList(Tail(ns))

RECURSIVE nameList(_)
nameList(names) ==
  IF Len(names) = 0 THEN <<>>
  ELSE IF Len(names) = 1 THEN names[1]
  ELSE names[1] \o <<", ">> \o nameList(Tail(names))

\* utils/errors.ts: the message every InjectionError carries
InjectionError(file, marker, message) ==
  [name |-> "InjectionError",
   message |-> <<"Injection failed: ">> \o message \o <<" (file: ">> \o file
               \o <<", marker: ">> \o marker \o <<")">>]

MarkerNotFoundError(file, marker) ==
  [InjectionError(file, marker, <<"Marker '">> \o marker \o <<"' not found">>)
     EXCEPT !.name = "MarkerNotFoundError"]

MalformedMarkerError(file, marker, detail) ==
  [InjectionError(file, marker, <<"Malformed marker: ">> \o detail)
     EXCEPT !.name = "MalformedMarkerError"]

DuplicateMarkerError(file, marker, lines) ==
  [InjectionError(file, marker, <<"Duplicate marker found at lines ">> \o numList(lines))
     EXCEPT !.name = "DuplicateMarkerError"]

MarkerSpoofingError(file, marker, newMarkers) ==
  [InjectionError(file, marker,
                  <<"Injection attempted to create new markers: ">> \o nameList(newMarkers))
     EXCEPT !.name = "MarkerSpoofingError"]

NoError == [name |-> "", message |-> <<>>]

ok(v) == [isOk |-> TRUE, value |-> v, error |-> NoError]

err(e) == [isOk |-> FALSE, value |-> <<>>, error |-> e]

\* regions.set(name, region) on a Map kept as a sequence in insertion order
mapSet(regions, region) ==
  IF \E i \in 1..Len(regions) : regions[i].name = region.name
  THEN [i \in 1..Len(regions) |->
          IF regions[i].name = region.name THEN region ELSE regions[i]]
  ELSE Append(regions, region)

\* faulty variants of the pairing loop: "lenient" returns the regions found
\* when an INJECT stays open, "byPosition" lets an END close the last open
\* INJECT whatever its name, "innermost" cites the last opened of the unclosed
\* INJECTs, "offByOne" starts the content at the newline of the INJECT line,
\* "fromEnd" takes the indent and the dialect of a region from its END line
RECURSIVE pairWith(_, _, _, _, _, _)
pairWith(mode, allMarkers, k, openStack, regions, filePath) ==
  LET close(marker, lastOpen) ==
        IF lastOpen.name # marker.name /\ mode # "byPosition"
        THEN err(MalformedMarkerError(filePath, marker.name,
                   <<"Mismatched markers: INJECT:">> \o lastOpen.name
                   \o <<" at line ", ToString(lastOpen.lineNumber + 1),
                        " closed by END:">> \o marker.name
                   \o <<" at line ", ToString(marker.lineNumber + 1)>>))
        ELSE pairWith(mode, allMarkers, k + 1, SubSeq(openStack, 1, Len(openStack) - 1),
               mapSet(regions,
                 [name |-> marker.name,
                  startLine |-> lastOpen.lineNumber,
                  endLine |-> marker.lineNumber,
                  contentStartIndex |->
                    lastOpen.lineEndIndex + (IF mode = "offByOne" THEN 0 ELSE 1),
                  contentEndIndex |-> marker.lineStartIndex,
                  indent |-> IF mode = "fromEnd" THEN marker.indent ELSE lastOpen.indent,
                  commentStyle |->
                    IF mode = "fromEnd" THEN marker.style ELSE lastOpen.style]),
               filePath)
      step(marker) ==
        IF marker.type = "start"
        THEN pairWith(mode, allMarkers, k + 1, Append(openStack, marker), regions, filePath)
        ELSE IF Len(openStack) = 0
        THEN err(MalformedMarkerError(filePath, marker.name,
                   <<"END marker without matching INJECT at line ",
                     ToString(marker.lineNumber + 1)>>))
        ELSE close(marker, openStack[Len(openStack)])
      unclosedError(unclosed) ==
        err(MalformedMarkerError(filePath, unclosed.name,
              <<"INJECT marker without matching END at line ",
                ToString(unclosed.lineNumber + 1)>>))
  IN  IF k > Len(allMarkers)
      THEN IF Len(openStack) > 0 /\ mode # "lenient"
           THEN unclosedError(openStack[IF mode = "innermost" THEN Len(openStack) ELSE 1])
           ELSE ok(regions)
      ELSE step(allMarkers[k])

pairMarkers_lenient(allMarkers, k, openStack, regions, filePath) ==
  pairWith("lenient", allMarkers, k, openStack, regions, filePath)

pairMarkers_byPosition(allMarkers, k, openStack, regions, filePath) ==
  pairWith("byPosition", allMarkers, k, openStack, regions, filePath)

pairMarkers_innermost(allMarkers, k, openStack, regions, filePath) ==
  pairWith("innermost", allMarkers, k, openStack, regions, filePath)

pairMarkers_offByOne(allMarkers, k, openStack, regions, filePath) ==
  pairWith("offByOne", allMarkers, k, openStack, regions, filePath)

pairMarkers_fromEnd(allMarkers, k, openStack, regions, filePath) ==
  pairWith("fromEnd", allMarkers, k, openStack, regions, filePath)

\* the pairing loop of parseMarkers from marker k on
RECURSIVE pairMarkers(_, _, _, _, _)
pairMarkers(allMarkers, k, openStack, regions, filePath) ==
  LET close(marker, lastOpen) ==
        IF lastOpen.name # marker.name
        THEN err(MalformedMarkerError(filePath, marker.name,
                   <<"Mismatched markers: INJECT:">> \o lastOpen.name
                   \o <<" at line ", ToString(lastOpen.lineNumber + 1),
                        " closed by END:">> \o marker.name
                   \o <<" at line ", ToString(marker.lineNumber + 1)>>))
        ELSE pairMarkers(allMarkers, k + 1, SubSeq(openStack, 1, Len(openStack) - 1),
               mapSet(regions,
                 [name |-> marker.name,
                  startLine |-> lastOpen.lineNumber,
                  endLine |-> marker.lineNumber,
                  contentStartIndex |-> lastOpen.lineEndIndex + 1,
                  contentEndIndex |-> marker.lineStartIndex,
                  indent |-> lastOpen.indent,
                  commentStyle |-> lastOpen.style]),
               filePath)
      step(marker) ==
        IF marker.type = "start"
        THEN pairMarkers(allMarkers, k + 1, Append(openStack, marker), regions, filePath)
        ELSE IF Len(openStack) = 0
        THEN err(MalformedMarkerError(filePath, marker.name,
                   <<"END marker without matching INJECT at line ",
                     ToString(marker.lineNumber + 1)>>))
        ELSE close(marker, openStack[Len(openStack)])
      unclosedError(unclosed) ==
        err(MalformedMarkerError(filePath, unclosed.name,
              <<"INJECT marker without matching END at line ",
                ToString(unclosed.lineNumber + 1)>>))
  IN  IF k > Len(allMarkers)
      THEN IF Len(openStack) > 0 THEN unclosedError(openStack[1]) ELSE ok(regions)
      ELSE step(allMarkers[k])

\* faulty variant: the markers are paired first, duplicates looked for after
checkMarkers_pairFirst(allMarkers, names, filePath) ==
  LET duplicateError(name) ==
        err(DuplicateMarkerError(filePath, name, startLinesOf(allMarkers, name)))
      check(paired, dups) ==
        IF ~paired.isOk THEN paired
        ELSE IF dups # {} THEN duplicateError(names[Min(dups)])
        ELSE paired
  IN  check(pairWith("", allMarkers, 1, <<>>, <<>>, filePath),
            {i \in 1..Len(names) : Len(startLinesOf(allMarkers, names[i])) > 1})

\* parseMarkers once findAllMarkers has run: names are the keys of startMarkers
checkMarkers(allMarkers, names, filePath) ==
  LET duplicateError(name) ==
        err(DuplicateMarkerError(filePath, name, startLinesOf(allMarkers, name)))
      check(dups) ==
        IF dups # {} THEN duplicateError(names[Min(dups)])
        ELSE pairMarkers(allMarkers, 1, <<>>, <<>>, filePath)
  IN  check({i \in 1..Len(names) : Len(startLinesOf(allMarkers, names[i])) > 1})

parseMarkers(content, filePath) ==
  LET parse(allMarkers) == checkMarkers(allMarkers, startNames(allMarkers, {}), filePath)
  IN  parse(findAllMarkers(content))

\* faulty variant: the names of the INJECT lines only
getMarkerNames_starts(content) ==
  LET starts(markers) == SelectSeq(markers, LAMBDA marker : marker.type = "start")
      names(markers) == {markers[i].name : i \in 1..Len(markers)}
  IN  names(starts(findAllMarkers(content)))

getMarkerNames(content) ==
  LET namesOf(allMarkers) == {allMarkers[i].name : i \in 1..Len(allMarkers)}
  IN  namesOf(findAllMarkers(content))

\* ------------------------------------------------------------------- engine

\* faulty variant: the final empty line is indented too
applyIndent_all(content, indent) ==
  LET indentLines(lines) == join([i \in 1..Len(lines) |-> indent \o lines[i]])
  IN  IF Len(indent) = 0 THEN content ELSE indentLines(split(content))

applyIndent(content, indent) ==
  LET indentLines(lines) ==
        join([i \in 1..Len(lines) |->
                IF Len(lines[i]) > 0 \/ i - 1 < Len(lines) - 1
                THEN indent \o lines[i] ELSE lines[i]])
  IN  IF Len(indent) = 0 THEN content ELSE indentLines(split(content))

\* regions.get(marker): <<>> when the Map has no such key
regionOf(regions, marker) ==
  SelectSeq(regions, LAMBDA r : r.name = marker)

\* faulty variant: the newline is completed whatever options.newline says
processInjection_newline(injection, options, region) ==
  LET complete(indented) ==
        IF ~endsWith(indented, NL) THEN indented \o <<NL>> ELSE indented
  IN  complete(IF options.indent /\ Len(region.indent) > 0
               THEN applyIndent(injection, region.indent) ELSE injection)

\* faulty variant: with options.newline a newline is appended to every text
processInjection_double(injection, options, region) ==
  LET complete(indented) == IF options.newline THEN indented \o <<NL>> ELSE indented
  IN  complete(IF options.indent /\ Len(region.indent) > 0
               THEN applyIndent(injection, region.indent) ELSE injection)

\* faulty variant: no newline is appended
processInjection_bare(injection, options, region) ==
  IF options.indent /\ Len(region.indent) > 0
  THEN applyIndent(injection, region.indent) ELSE injection

\* the text injectContent inserts: indented, then newline-completed
processInjection(injection, options, region) ==
  LET complete(indented) ==
        IF options.newline /\ ~endsWith(indented, NL) THEN indented \o <<NL>> ELSE indented
  IN  complete(IF options.indent /\ Len(region.indent) > 0
               THEN applyIndent(injection, region.indent) ELSE injection)

\* faulty variants of the splice: order(position, processedInjection,
\* before, existingContent, after) builds newContent
injectWith(order(_, _, _, _, _), fileContent, marker, injection, options, filePath) ==
  LET splice(processedInjection, before, existingContent, after) ==
        ok(order(options.position, processedInjection, before, existingContent, after))
      inject(region) ==
        splice(processInjection(injection, options, region),
               slice(fileContent, 0, region.contentStartIndex),
               slice(fileContent, region.contentStartIndex, region.contentEndIndex),
               sliceFrom(fileContent, region.contentEndIndex))
      lookup(found) ==
        IF Len(found) = 0 THEN err(MarkerNotFoundError(filePath, marker))
        ELSE inject(found[1])
      parsedMarkers(markersResult) ==
        IF ~markersResult.isOk THEN err(markersResult.error)
        ELSE lookup(regionOf(markersResult.value, marker))
  IN  parsedMarkers(parseMarkers(fileContent, filePath))

\* faulty variant: the injection always goes first
injectContent_prepend(fileContent, marker, injection, options, filePath) ==
  injectWith(LAMBDA pos, new, before, existing, after : before \o new \o existing \o after,
             fileContent, marker, injection, options, filePath)

\* faulty variant: "start" and "end" exchanged
injectContent_swapped(fileContent, marker, injection, options, filePath) ==
  injectWith(LAMBDA pos, new, before, existing, after :
               IF pos = "start" THEN before \o existing \o new \o after
               ELSE before \o new \o existing \o after,
             fileContent, marker, injection, options, filePath)

\* faulty variant: the injection replaces the content of the region
injectContent_replace(fileContent, marker, injection, options, filePath) ==
  injectWith(LAMBDA pos, new, before, existing, after : before \o new \o after,
             fileContent, marker, injection, options, filePath)

\* faulty variant: the marker is looked for among the marker lines before the
\* file is parsed
injectContent_lookupFirst(fileContent, marker, injection, options, filePath) ==
  IF marker \notin getMarkerNames(fileContent)
  THEN err(MarkerNotFoundError(filePath, marker))
  ELSE injectWith(LAMBDA pos, new, before, existing, after :
                    IF pos = "start" THEN before \o new \o existing \o after
                    ELSE before \o existing \o new \o after,
                  fileContent, marker, injection, options, filePath)

injectContent(fileContent, marker, injection, options, filePath) ==
  LET splice(processedInjection, before, existingContent, after) ==
        IF options.position = "start"
        THEN ok(before \o processedInjection \o existingContent \o after)
        ELSE ok(before \o existingContent \o processedInjection \o after)
      inject(region) ==
        splice(processInjection(injection, options, region),
               slice(fileContent, 0, region.contentStartIndex),
               slice(fileContent, region.contentStartIndex, region.contentEndIndex),
               sliceFrom(fileContent, region.contentEndIndex))
      lookup(found) ==
        IF Len(found) = 0 THEN err(MarkerNotFoundError(filePath, marker))
        ELSE inject(found[1])
      parsedMarkers(markersResult) ==
        IF ~markersResult.isOk THEN err(markersResult.error)
        ELSE lookup(regionOf(markersResult.value, marker))
  IN  parsedMarkers(parseMarkers(fileContent, filePath))

\* the names of markersAfter that markersBefore lacks, in Set iteration order
\* (first occurrence in afterContent)
RECURSIVE newNames(_, _, _)
newNames(markers, markersBefore, seen) ==
  IF Len(markers) = 0 THEN <<>>
  ELSE LET n == Head(markers).name
       IN  IF n \notin seen /\ n \notin markersBefore
           THEN <<n>> \o newNames(Tail(markers), markersBefore, seen \cup {n})
           ELSE newNames(Tail(markers), markersBefore, seen \cup {n})

\* faulty variant: nothing is checked
validateNoNewMarkers_skip(beforeContent, afterContent, filePath, currentMarker) == ok(<<>>)

\* faulty variant: the two contents exchanged (the names removed, not added)
validateNoNewMarkers_removed(beforeContent, afterContent, filePath, currentMarker) ==
  LET verdict(newMarkers) ==
        IF Len(newMarkers) > 0
        THEN err(MarkerSpoofingError(filePath, currentMarker, newMarkers))
        ELSE ok(<<>>)
  IN  verdict(newNames(findAllMarkers(beforeContent), getMarkerNames(afterContent), {}))

validateNoNewMarkers(beforeContent, afterContent, filePath, currentMarker) ==
  LET verdict(newMarkers) ==
        IF Len(newMarkers) > 0
        THEN err(MarkerSpoofingError(filePath, currentMarker, newMarkers))
        ELSE ok(<<>>)
  IN  verdict(newNames(findAllMarkers(afterContent), getMarkerNames(beforeContent), {}))

\* --------------------------------------------------------------------- JSON
\* A JSON value: <<"obj", pairs>> (pairs: <<key, value>> in insertion order),
\* <<"arr", items>>, <<"str", characters>>, <<"lit", lexeme>> (a number, true,
\* false, null); keys are sequences of characters.  Undefined is JavaScript's
\* undefined.

Undefined == <<"undefined">>

Obj(pairs) == <<"obj", pairs>>

Arr(items) == <<"arr", items>>

Str(chars) == <<"str", chars>>

Lit(lexeme) == <<"lit", lexeme>>

JsonLits == {"1", "2", "null"}

JsonWs == {" ", "\t", NL}

isObject(val) == val[1] = "obj"

isArray(val) == val[1] = "arr"

keysOf(o) == [i \in 1..Len(o[2]) |-> o[2][i][1]]

hasKey(o, key) == \E i \in 1..Len(o[2]) : o[2][i][1] = key

\* o[key]
getKey(o, key) ==
  IF hasKey(o, key)
  THEN o[2][CHOOSE i \in 1..Len(o[2]) : o[2][i][1] = key][2]
  ELSE Undefined

\* o[key] = val : an existing key keeps its place, a new key goes last
setKey(o, key, val) ==
  IF hasKey(o, key)
  THEN Obj([i \in 1..Len(o[2]) |-> IF o[2][i][1] = key THEN <<key, val>> ELSE o[2][i]])
  ELSE Obj(Append(o[2], <<key, val>>))

\* { ...val }
spread(val) ==
  CASE isObject(val) -> val
    [] isArray(val) -> Obj([i \in 1..Len(val[2]) |-> <<<<ToString(i - 1)>>, val[2][i]>>])
    [] val[1] = "str" -> Obj([i \in 1..Len(val[2]) |-> <<<<ToString(i - 1)>>, Str(<<val[2][i]>>)>>])
    [] OTHER -> Obj(<<>>)

RECURSIVE repeat(_, _)
repeat(s, n) == IF n <= 0 THEN <<>> ELSE s \o repeat(s, n - 1)

\* JSON.stringify(val, null, gap) at nesting depth; gap = 0 is JSON.stringify(val)
RECURSIVE stringifyAt(_, _, _)
stringifyAt(val, gap, depth) ==
  LET RECURSIVE members(_, _)
      members(items, i) ==
        IF i > Len(items) THEN <<>>
        ELSE (IF i > 1 THEN <<",">> ELSE <<>>)
             \o (IF gap > 0 THEN <<NL>> \o repeat(<<" ">>, gap * (depth + 1)) ELSE <<>>)
             \o items[i] \o members(items, i + 1)
      close == IF gap > 0 THEN <<NL>> \o repeat(<<" ">>, gap * depth) ELSE <<>>
  IN  CASE val[1] = "lit" -> <<val[2]>>
        [] val[1] = "str" -> <<"\"">> \o val[2] \o <<"\"">>
        [] isArray(val) ->
             IF Len(val[2]) = 0 THEN <<"[", "]">>
             ELSE <<"[">>
                  \o members([i \in 1..Len(val[2]) |-> stringifyAt(val[2][i], gap, depth + 1)], 1)
                  \o close \o <<"]">>
        [] isObject(val) ->
             IF Len(val[2]) = 0 THEN <<"{", "}">>
             ELSE <<"{">>
                  \o members([i \in 1..Len(val[2]) |->
                                <<"\"">> \o val[2][i][1] \o <<"\"", ":">>
                                \o (IF gap > 0 THEN <<" ">> ELSE <<>>)
                                \o stringifyAt(val[2][i][2], gap, depth + 1)], 1)
                  \o close \o <<"}">>

stringify(val, gap) == stringifyAt(val, gap, 0)

parseFail == [isOk |-> FALSE, value |-> Undefined, next |-> 0]

parsed(val, next) == [isOk |-> TRUE, value |-> val, next |-> next]

\* a string literal whose opening quote is at p
parseString(s, p) ==
  LET upTo(q) ==
        IF \E k \in (p + 1)..(q - 1) : s[k] \in {NL, "\t"} THEN parseFail
        ELSE parsed(SubSeq(s, p + 1, q - 1), q + 1)
      closed(closes) ==
        IF p > Len(s) \/ s[p] # "\"" \/ closes = {} THEN parseFail ELSE upTo(Min(closes))
  IN  closed({k \in (p + 1)..Len(s) : s[k] = "\""})

\* JSON.parse's grammar: a value from p0 on, the members of an object, the
\* elements of an array
RECURSIVE parseValue(_, _), parseMembers(_, _, _), parseElements(_, _, _)
parseValue(s, p0) ==
  LET object(q) ==
        IF q <= Len(s) /\ s[q] = "}" THEN parsed(Obj(<<>>), q + 1)
        ELSE parseMembers(s, q, Obj(<<>>))
      array(q) ==
        IF q <= Len(s) /\ s[q] = "]" THEN parsed(Arr(<<>>), q + 1)
        ELSE parseElements(s, q, <<>>)
      string(str) == IF str.isOk THEN parsed(Str(str.value), str.next) ELSE parseFail
      value(p) ==
        IF p > Len(s) THEN parseFail
        ELSE CASE s[p] = "{" -> object(skip(s, p + 1, JsonWs))
               [] s[p] = "[" -> array(skip(s, p + 1, JsonWs))
               [] s[p] = "\"" -> string(parseString(s, p))
               [] s[p] \in JsonLits -> parsed(Lit(s[p]), p + 1)
               [] OTHER -> parseFail
  IN  value(skip(s, p0, JsonWs))

parseMembers(s, p, o) ==
  LET more(o2, q) ==
        IF q > Len(s) THEN parseFail
        ELSE CASE s[q] = "," -> parseMembers(s, skip(s, q + 1, JsonWs), o2)
               [] s[q] = "}" -> parsed(o2, q + 1)
               [] OTHER -> parseFail
      member(key, val) ==
        IF ~val.isOk THEN parseFail
        ELSE more(setKey(o, key.value, val.value), skip(s, val.next, JsonWs))
      afterKey(key, colon) ==
        IF colon > Len(s) \/ s[colon] # ":" THEN parseFail
        ELSE member(key, parseValue(s, colon + 1))
      named(key) == IF ~key.isOk THEN parseFail ELSE afterKey(key, skip(s, key.next, JsonWs))
  IN  named(parseString(s, p))

parseElements(s, p, items) ==
  LET more(items2, q) ==
        IF q > Len(s) THEN parseFail
        ELSE CASE s[q] = "," -> parseElements(s, q + 1, items2)
               [] s[q] = "]" -> parsed(Arr(items2), q + 1)
               [] OTHER -> parseFail
      element(val) ==
        IF ~val.isOk THEN parseFail
        ELSE more(Append(items, val.value), skip(s, val.next, JsonWs))
  IN  element(parseValue(s, p))

\* JSON.parse(text): isOk = FALSE when it throws
jsonParse(text) ==
  LET whole(val) ==
        IF val.isOk /\ skip(text, val.next, JsonWs) = Len(text) + 1 THEN val ELSE parseFail
  IN  whole(parseValue(text, 1))

\* the array branch of deepMergeJson: the first of the items whose
\* JSON.stringify is equal
\* faulty variant: every item is kept
dedupe_keepAll(combined, seen) == combined

RECURSIVE dedupe(_, _)
dedupe(combined, seen) ==
  LET keep(item, key) ==
        IF key \in seen THEN dedupe(Tail(combined), seen)
        ELSE <<item>> \o dedupe(Tail(combined), seen \cup {key})
  IN  IF Len(combined) = 0 THEN <<>>
      ELSE keep(Head(combined), stringify(Head(combined), 0))

RECURSIVE deepMergeJson(_, _), mergeKeys(_, _, _)
deepMergeJson(target, source) == mergeKeys(spread(target), spread(source), 1)

\* the for loop of deepMergeJson from the i-th key of source on
mergeKeys(result, source, i) ==
  LET merge(key, sourceVal, targetVal) ==
        IF isObject(sourceVal) /\ isObject(targetVal)
        THEN setKey(result, key, deepMergeJson(targetVal, sourceVal))
        ELSE IF isArray(sourceVal) /\ isArray(targetVal)
        THEN setKey(result, key, Arr(dedupe(targetVal[2] \o sourceVal[2], {})))
        ELSE setKey(result, key, sourceVal)
      at(key) == merge(key, getKey(source, key), getKey(result, key))
  IN  IF i > Len(source[2]) THEN result
      ELSE mergeKeys(at(keysOf(source)[i]), source, i + 1)

\* deepMergeJson on the objects themselves.  A heap is the sequence of the
\* objects and arrays allocated so far; <<"ref", a>> is the a-th of them, and
\* an object or array holds its primitive members and the references of the
\* others.
Ref(a) == <<"ref", a>>

isRef(val) == val[1] = "ref"

\* the value and every value inside it allocated on the heap
RECURSIVE store(_, _), storeAll(_, _, _, _)
store(heap, val) ==
  LET allocate(h, node) == [heap |-> Append(h, node), ref |-> Ref(Len(h) + 1)]
      object(stored) ==
        allocate(stored.heap,
                 Obj([i \in 1..Len(val[2]) |-> <<val[2][i][1], stored.refs[i]>>]))
      array(stored) == allocate(stored.heap, Arr(stored.refs))
  IN  CASE isObject(val) ->
             object(storeAll(heap, [i \in 1..Len(val[2]) |-> val[2][i][2]], 1, <<>>))
        [] isArray(val) -> array(storeAll(heap, val[2], 1, <<>>))
        [] OTHER -> [heap |-> heap, ref |-> val]

storeAll(heap, vals, i, refs) ==
  LET next(stored) == storeAll(stored.heap, vals, i + 1, Append(refs, stored.ref))
  IN  IF i > Len(vals) THEN [heap |-> heap, refs |-> refs]
      ELSE next(store(heap, vals[i]))

\* the value a reference stands for
RECURSIVE deref(_, _)
deref(heap, val) ==
  LET node(n) ==
        IF isObject(n)
        THEN Obj([i \in 1..Len(n[2]) |-> <<n[2][i][1], deref(heap, n[2][i][2])>>])
        ELSE Arr([i \in 1..Len(n[2]) |-> deref(heap, n[2][i])])
  IN  IF isRef(val) THEN node(heap[val[2]]) ELSE val

isObjectRef(heap, val) == isRef(val) /\ isObject(heap[val[2]])

isArrayRef(heap, val) == isRef(val) /\ isArray(heap[val[2]])

\* faulty variant: result is the target itself
spreadRef_alias(heap, target) == [heap |-> heap, ref |-> target]

\* const result = { ...target }: a new object with the members of target
spreadRef(heap, target) ==
  [heap |-> Append(heap, heap[target[2]]), ref |-> Ref(Len(heap) + 1)]

\* the for loop over combined: an item is kept when its JSON.stringify is new
RECURSIVE dedupeRef(_, _, _)
dedupeRef(heap, combined, seen) ==
  LET keep(item, key) ==
        IF key \in seen THEN dedupeRef(heap, Tail(combined), seen)
        ELSE <<item>> \o dedupeRef(heap, Tail(combined), seen \cup {key})
  IN  IF Len(combined) = 0 THEN <<>>
      ELSE keep(Head(combined), stringify(deref(heap, Head(combined)), 0))

RECURSIVE deepMergeJsonRef(_, _, _), mergeKeysRef(_, _, _, _)
deepMergeJsonRef(heap, target, source) ==
  LET loop(copied) == mergeKeysRef(copied.heap, copied.ref, source, 1)
  IN  loop(spreadRef(heap, target))

\* the for loop of deepMergeJson from the i-th key of source on
mergeKeysRef(heap, result, source, i) ==
  LET assign(h, key, val) == [h EXCEPT ![result[2]] = setKey(@, key, val)]
      nested(key, merged) == assign(merged.heap, key, merged.ref)
      deduped(key, items) == assign(Append(heap, Arr(items)), key, Ref(Len(heap) + 1))
      merge(key, sourceVal, targetVal) ==
        IF isObjectRef(heap, sourceVal) /\ isObjectRef(heap, targetVal)
        THEN nested(key, deepMergeJsonRef(heap, targetVal, sourceVal))
        ELSE IF isArrayRef(heap, sourceVal) /\ isArrayRef(heap, targetVal)
        THEN deduped(key, dedupeRef(heap, heap[targetVal[2]][2] \o heap[sourceVal[2]][2], {}))
        ELSE assign(heap, key, sourceVal)
      at(key) == merge(key, getKey(heap[source[2]], key), getKey(heap[result[2]], key))
  IN  IF i > Len(heap[source[2]][2]) THEN [heap |-> heap, ref |-> result]
      ELSE mergeKeysRef(at(keysOf(heap[source[2]])[i]), result, source, i + 1)

parseJsonPath(jsonPath) ==
  IF ~(Len(jsonPath) >= 2 /\ jsonPath[1] = "$" /\ jsonPath[2] = ".") THEN <<jsonPath>>
  ELSE splitOn(sliceFrom(jsonPath, 2), ".")

\* faulty variant: nothing is found under the path
getNestedValue_none(obj, pathParts) == Undefined

RECURSIVE getNestedValue(_, _)
getNestedValue(obj, pathParts) ==
  IF Len(pathParts) = 0 THEN obj
  ELSE IF ~isObject(obj) THEN Undefined
  ELSE getNestedValue(getKey(obj, Head(pathParts)), Tail(pathParts))

RECURSIVE setNestedValue(_, _, _)
setNestedValue(obj, pathParts, value) ==
  LET descend(result, first, rest, existing) ==
        setKey(result, first,
               setNestedValue(IF isObject(existing) THEN existing ELSE Obj(<<>>), rest, value))
      set(result, first, rest) ==
        IF Len(first) = 0 THEN result
        ELSE IF Len(rest) = 0 THEN setKey(result, first, value)
        ELSE descend(result, first, rest, getKey(result, first))
  IN  IF Len(pathParts) = 0 THEN (IF isObject(value) THEN value ELSE obj)
      ELSE set(spread(obj), Head(pathParts), Tail(pathParts))

injectJson(fileContent, jsonPath, jsonToMerge, filePath) ==
  LET atPath(doc, pathParts, existingValue) ==
        IF isObject(existingValue)
        THEN setNestedValue(doc, pathParts, deepMergeJson(existingValue, jsonToMerge))
        ELSE setNestedValue(doc, pathParts, jsonToMerge)
      navigate(doc, pathParts) == atPath(doc, pathParts, getNestedValue(doc, pathParts))
      merged(doc) ==
        IF jsonPath # Undefined /\ Len(jsonPath) > 0
        THEN navigate(doc, parseJsonPath(jsonPath))
        ELSE deepMergeJson(doc, jsonToMerge)
      inject(doc) ==
        IF ~doc.isOk
        THEN err(InjectionError(filePath, <<"json">>, <<"Failed to parse JSON in ">> \o filePath))
        ELSE ok(stringify(merged(doc.value), 2) \o <<NL>>)
  IN  inject(jsonParse(fileContent))

\* --------------------------------------------------------------- filesystem
\* disk maps a normalized path to a node [kind, content, writable]: kind is
\* "none" (nothing there), "file" or "dir".  readFileSync throws on a
\* directory (EISDIR); writeFileSync throws on a directory and on a file
\* without write permission (EACCES), and a throwing write leaves the node as
\* it was.

NoNode == [kind |-> "none", content |-> <<>>, writable |-> TRUE]

File(content) == [kind |-> "file", content |-> content, writable |-> TRUE]

ReadOnly(content) == [kind |-> "file", content |-> content, writable |-> FALSE]

Dir == [kind |-> "dir", content |-> <<>>, writable |-> TRUE]

\* path.normalize on the segments of a relative path
RECURSIVE normalizeSegments(_, _)
normalizeSegments(segments, done) ==
  IF Len(segments) = 0 THEN done
  ELSE LET seg == Head(segments)
       IN  IF seg = <<>> \/ seg = <<".">> THEN normalizeSegments(Tail(segments), done)
           ELSE IF seg = <<"..">> /\ Len(done) > 0 /\ done[Len(done)] # <<"..">>
           THEN normalizeSegments(Tail(segments), SubSeq(done, 1, Len(done) - 1))
           ELSE normalizeSegments(Tail(segments), Append(done, seg))

RECURSIVE joinWith(_, _)
joinWith(pieces, sep) ==
  IF Len(pieces) = 0 THEN <<>>
  ELSE IF Len(pieces) = 1 THEN pieces[1]
  ELSE pieces[1] \o <<sep>> \o joinWith(Tail(pieces), sep)

\* path.join(a, b)
pathJoin(a, b) == joinWith(normalizeSegments(splitOn(a \o <<"/">> \o b, "/"), <<>>), "/")

nodeAt(disk, path) == IF path \in DOMAIN disk THEN disk[path] ELSE NoNode

\* faulty variant: every path exists
existsSync_always(disk, path) == TRUE

existsSync(disk, path) == nodeAt(disk, path).kind # "none"

readFileSync(disk, path) ==
  LET node == nodeAt(disk, path)
  IN  CASE node.kind = "file" -> [threw |-> FALSE, value |-> node.content, message |-> <<>>]
        [] node.kind = "dir" ->
             [threw |-> TRUE, value |-> <<>>,
              message |-> <<"EISDIR: illegal operation on a directory, read">>]
        [] OTHER ->
             [threw |-> TRUE, value |-> <<>>,
              message |-> <<"ENOENT: no such file or directory, open '">> \o path \o <<"'">>]

writeFileSync(disk, path, data) ==
  LET node == nodeAt(disk, path)
  IN  CASE node.kind = "dir" ->
             [threw |-> TRUE, disk |-> disk,
              message |-> <<"EISDIR: illegal operation on a directory, open '">> \o path \o <<"'">>]
        [] node.kind = "file" /\ ~node.writable ->
             [threw |-> TRUE, disk |-> disk,
              message |-> <<"EACCES: permission denied, open '">> \o path \o <<"'">>]
        [] path \notin DOMAIN disk ->
             [threw |-> TRUE, disk |-> disk,
              message |-> <<"ENOENT: no such file or directory, open '">> \o path \o <<"'">>]
        [] OTHER ->
             [threw |-> FALSE, message |-> <<>>,
              disk |-> [disk EXCEPT ![path] = [node EXCEPT !.kind = "file", !.content = data]]]

\* ---------------------------------------------------------------- processor

\* the placeholder <%= projectName %> of a template
PLACEHOLDER == "<%= projectName %>"

\* templates/engine.ts renderTemplate: pure substitution of the context's
\* values for the placeholders of the template
RECURSIVE renderTemplate(_, _)
renderTemplate(template, context) ==
  IF Len(template) = 0 THEN <<>>
  ELSE (IF Head(template) = PLACEHOLDER THEN context.projectName ELSE <<Head(template)>>)
       \o renderTemplate(Tail(template), context)

resolveInjectionContent(disk, injection, context, templateBasePath) ==
  LET marker == IF injection.marker = Undefined THEN <<"unknown">> ELSE injection.marker
      readTemplate(read) ==
        IF read.threw
        THEN err(InjectionError(injection.file, marker,
                   <<"Failed to read template: ">> \o read.message))
        ELSE ok(renderTemplate(read.value, context))
      fromTemplate(templatePath) ==
        IF ~existsSync(disk, templatePath)
        THEN err(InjectionError(injection.file, marker,
                   <<"Template file not found: ">> \o injection.template))
        ELSE readTemplate(readFileSync(disk, templatePath))
  IN  IF injection.content # Undefined
      THEN ok(renderTemplate(injection.content, context))
      ELSE IF injection.template # Undefined
      THEN IF templateBasePath = Undefined \/ Len(templateBasePath) = 0
           THEN err(InjectionError(injection.file, marker,
                      <<"Template base path required for template injection">>))
           ELSE fromTemplate(pathJoin(templateBasePath, injection.template))
      ELSE err(InjectionError(injection.file, marker,
                 <<"No content, template, or json specified">>))

\* the outcome of processSingleInjection: the disk it leaves and its result
outcome(disk, result) == [disk |-> disk, result |-> result]

\* faulty variant: result.success is not set after the write
writeResult_unreported(disk, filePath, newContent, result, linesAdded) ==
  LET caught(written) ==
        IF written.threw
        THEN [disk |-> disk,
              result |-> [result EXCEPT
                            !.error = <<"Failed to write file: ">> \o written.message]]
        ELSE [disk |-> written.disk, result |-> [result EXCEPT !.linesAdded = linesAdded]]
  IN  caught(writeFileSync(disk, filePath, newContent))

\* the write at the end of both branches, with its try/catch
writeResult(disk, filePath, newContent, result, linesAdded) ==
  LET caught(written) ==
        IF written.threw
        THEN outcome(disk, [result EXCEPT
                              !.error = <<"Failed to write file: ">> \o written.message])
        ELSE outcome(written.disk,
                     [result EXCEPT !.success = TRUE, !.linesAdded = linesAdded])
  IN  caught(writeFileSync(disk, filePath, newContent))

\* the JSON branch of processSingleInjection
processJson(disk, filePath, fileContent, injection, result) ==
  LET write(jsonResult) ==
        IF ~jsonResult.isOk
        THEN outcome(disk, [result EXCEPT !.error = jsonResult.error.message])
        ELSE writeResult(disk, filePath, jsonResult.value, result,
                         Len(split(jsonResult.value)) - Len(split(fileContent)))
  IN  write(injectJson(fileContent, injection.jsonPath, injection.json, injection.file))

\* faulty variant: a final newline counts as a line
countLines_pieces(injectionContent) == Len(split(injectionContent))

\* linesAdded of the text branch
countLines(injectionContent) ==
  Len(split(injectionContent)) - (IF endsWith(injectionContent, NL) THEN 1 ELSE 0)

\* faulty variant: the file is written before validateNoNewMarkers is asked
processText_writeFirst(disk, filePath, fileContent, marker, injection, result, context, templateBasePath) ==
  LET write(injectionContent, written, securityResult) ==
        IF written.threw
        THEN outcome(disk, [result EXCEPT
                              !.error = <<"Failed to write file: ">> \o written.message])
        ELSE IF ~securityResult.isOk
        THEN outcome(written.disk, [result EXCEPT !.error = securityResult.error.message])
        ELSE outcome(written.disk,
                     [result EXCEPT !.success = TRUE,
                                    !.linesAdded = countLines(injectionContent)])
      validate(injectionContent, beforeContent, injectResult) ==
        IF ~injectResult.isOk
        THEN outcome(disk, [result EXCEPT !.error = injectResult.error.message])
        ELSE write(injectionContent, writeFileSync(disk, filePath, injectResult.value),
                   validateNoNewMarkers(beforeContent, injectResult.value, injection.file,
                                        marker))
      inject(contentResult) ==
        IF ~contentResult.isOk
        THEN outcome(disk, [result EXCEPT !.error = contentResult.error.message])
        ELSE validate(contentResult.value, fileContent,
                      injectContent(fileContent, marker, contentResult.value,
                                    [position |-> injection.position,
                                     newline |-> injection.newline,
                                     indent |-> injection.indent],
                                    injection.file))
  IN  inject(resolveInjectionContent(disk, injection, context, templateBasePath))

\* faulty variant: validateNoNewMarkers is not asked
processText_unchecked(disk, filePath, fileContent, marker, injection, result, context, templateBasePath) ==
  LET validate(injectionContent, injectResult) ==
        IF ~injectResult.isOk
        THEN outcome(disk, [result EXCEPT !.error = injectResult.error.message])
        ELSE writeResult(disk, filePath, injectResult.value, result,
                         countLines(injectionContent))
      inject(contentResult) ==
        IF ~contentResult.isOk
        THEN outcome(disk, [result EXCEPT !.error = contentResult.error.message])
        ELSE validate(contentResult.value,
                      injectContent(fileContent, marker, contentResult.value,
                                    [position |-> injection.position,
                                     newline |-> injection.newline,
                                     indent |-> injection.indent],
                                    injection.file))
  IN  inject(resolveInjectionContent(disk, injection, context, templateBasePath))

\* the text branch of processSingleInjection
processText(disk, filePath, fileContent, marker, injection, result, context, templateBasePath) ==
  LET write(injectionContent, newContent, securityResult) ==
        IF ~securityResult.isOk
        THEN outcome(disk, [result EXCEPT !.error = securityResult.error.message])
        ELSE writeResult(disk, filePath, newContent, result, countLines(injectionContent))
      validate(injectionContent, beforeContent, injectResult) ==
        IF ~injectResult.isOk
        THEN outcome(disk, [result EXCEPT !.error = injectResult.error.message])
        ELSE write(injectionContent, injectResult.value,
                   validateNoNewMarkers(beforeContent, injectResult.value, injection.file,
                                        marker))
      inject(contentResult) ==
        IF ~contentResult.isOk
        THEN outcome(disk, [result EXCEPT !.error = contentResult.error.message])
        ELSE validate(contentResult.value, fileContent,
                      injectContent(fileContent, marker, contentResult.value,
                                    [position |-> injection.position,
                                     newline |-> injection.newline,
                                     indent |-> injection.indent],
                                    injection.file))
  IN  inject(resolveInjectionContent(disk, injection, context, templateBasePath))

processSingleInjection(disk, projectDir, injection, addonName, context, templateBasePath) ==
  LET process(filePath, marker, result, read) ==
        IF ~existsSync(disk, filePath)
        THEN outcome(disk, [result EXCEPT
                              !.error = <<"Target file not found: ">> \o injection.file])
        ELSE IF read.threw
        THEN outcome(disk, [result EXCEPT
                              !.error = <<"Failed to read file: ">> \o read.message])
        ELSE IF injection.json # Undefined
        THEN processJson(disk, filePath, read.value, injection, result)
        ELSE processText(disk, filePath, read.value, marker, injection, result, context,
                         templateBasePath)
      start(filePath, marker) ==
        process(filePath, marker,
                [file |-> injection.file, marker |-> marker, addon |-> addonName,
                 success |-> FALSE, error |-> <<>>, linesAdded |-> 0],
                readFileSync(disk, filePath))
  IN  start(pathJoin(projectDir, injection.file),
            IF injection.marker = Undefined THEN <<"json">> ELSE injection.marker)

\* ------------------------------------------------------------------- inputs

MaxBatch == 2

projectDir == <<"proj">>

addonDir == <<"addon">>

AppPath == <<"proj", "/", "app.ts">>
PkgPath == <<"proj", "/", "pkg.json">>
GonePath == <<"proj", "/", "gone.ts">>
OutPath == <<"out.ts">>
TemplatePath == <<"addon", "/", "t.ejs">>

\* region a (indented, holding one line) and the empty region b
AppTs ==
  <<"x", NL, " ", "//", INJ, "a", NL, " ", "x", NL, " ", "//", END, "a", NL,
    "#", INJ, "b", NL, "#", END, "b", NL>>

\* regions e and a
AppEvil == <<"//", INJ, "e", NL, "//", END, "e", NL, "//", INJ, "a", NL, "//", END, "a">>

\* INJECT:a is never closed
AppBroken == <<"//", INJ, "a", NL, "x", NL, "//", INJ, "b", NL, "//", END, "b">>

OutTs == <<"//", INJ, "a", NL, "//", END, "a">>

PkgJson ==
  stringify(Obj(<< <<<<"k">>, Obj(<< <<<<"m">>, Lit("1")>> >>)>>,
                   <<<<"n">>, Arr(<<Lit("1")>>)>> >>), 2) \o <<NL>>

TemplateEjs == <<"x", PLACEHOLDER, NL>>

\* the two marker lines // BAKERY:INJECT:e and // BAKERY:END:e
EvilPayload == <<"//", " ", INJ, "e", NL, "//", " ", END, "e">>

mkDisk(app, pkg, out, template) ==
  (AppPath :> app) @@ (PkgPath :> pkg) @@ (GonePath :> NoNode) @@ (OutPath :> out)
  @@ (TemplatePath :> template)

\* the project trees and template directories a batch is run against
Worlds ==
  { [disk |-> mkDisk(File(AppTs), File(PkgJson), File(OutTs), File(TemplateEjs)),
     templateBasePath |-> addonDir],
    [disk |-> mkDisk(File(AppEvil), File(<<"x">>), NoNode, NoNode),
     templateBasePath |-> addonDir],
    [disk |-> mkDisk(ReadOnly(AppTs), Dir, File(OutTs), Dir),
     templateBasePath |-> addonDir],
    [disk |-> mkDisk(File(AppBroken), ReadOnly(PkgJson), NoNode, File(TemplateEjs)),
     templateBasePath |-> Undefined] }

\* an InjectionDefinition as InjectionDefinitionSchema types it
Def(file, marker, content, template, json, jsonPath, position, newline, indent) ==
  [file |-> file, marker |-> marker, content |-> content, template |-> template,
   json |-> json, jsonPath |-> jsonPath, position |-> position, newline |-> newline,
   indent |-> indent]

TextDef(file, marker, content, position, newline, indent) ==
  Def(file, marker, content, Undefined, Undefined, Undefined, position, newline, indent)

TemplateDef(file, marker, template) ==
  Def(file, marker, Undefined, template, Undefined, Undefined, "end", TRUE, TRUE)

JsonDef(file, json, jsonPath) ==
  Def(file, Undefined, Undefined, Undefined, json, jsonPath, "end", TRUE, TRUE)

Fragment == Obj(<< <<<<"n">>, Arr(<<Lit("1"), Lit("2")>>)>> >>)

Defs ==
  { TextDef(<<"app.ts">>, <<"a">>, <<"x">>, "end", TRUE, TRUE),
    TextDef(<<"app.ts">>, <<"a">>, <<"b", NL, "x">>, "end", TRUE, FALSE),
    TextDef(<<"app.ts">>, <<"a">>, <<"x">>, "start", FALSE, FALSE),
    TextDef(<<"app.ts">>, <<"b">>, <<"x">>, "end", FALSE, TRUE),
    TextDef(<<"app.ts">>, <<"a">>, EvilPayload, "end", TRUE, FALSE),
    TextDef(<<"app.ts">>, <<"b">>, <<"//", INJ, PLACEHOLDER>>, "start", TRUE, TRUE),
    TextDef(<<"app.ts">>, <<"a">>, <<"#", END, "b">>, "end", TRUE, TRUE),
    TextDef(<<"gone.ts">>, <<"a">>, <<"x">>, "end", TRUE, FALSE),
    TextDef(<<"..", "/", "out.ts">>, <<"a">>, <<"x">>, "end", TRUE, TRUE),
    TemplateDef(<<"app.ts">>, <<"b">>, <<"t.ejs">>),
    JsonDef(<<"pkg.json">>, Fragment, Undefined),
    Def(<<"pkg.json">>, <<"a">>, <<"x">>, Undefined, Fragment, <<"$", ".", "k">>,
        "end", TRUE, TRUE),
    JsonDef(<<"pkg.json">>, Fragment, <<"$", ".", "k", ".", "m">>) }

Batches == UNION {[1..n -> Defs] : n \in 0..MaxBatch}

Context == [projectName |-> <<"e">>]

\* the inputs of the calls of injectContent
MaxPayload == 2

PayloadChars == {"x", NL, " "}

Payloads ==
  UNION {[1..n -> PayloadChars] : n \in 0..MaxPayload}
  \cup {EvilPayload, <<"x", NL, NL, "x", NL>>, <<"#", END, "b">>}

\* the routes file of the tests: an empty region between other lines
BaseContent == <<"x", NL, NL, "//", " ", INJ, "a", NL, "//", " ", END, "a", NL, NL, "x">>

\* region b nested in region a, both indented, in the html and css dialects
Nested ==
  <<"\t", "<!--", INJ, "a", "-->", NL, "x", NL, " ", "/*", " ", INJ, "b", " ", "*/", NL,
    " ", "/*", END, "b", "*/", NL, "\t", "<!--", END, "a", " ", "-->">>

\* two INJECT:a lines
Duplicated == <<"//", INJ, "a", NL, "//", INJ, "a", NL, "//", END, "a">>

\* INJECT:a closed by END:b while region e is well formed
Mismatched ==
  <<"//", INJ, "e", NL, "//", END, "e", NL, "//", INJ, "a", NL, "//", END, "b">>

InjectFiles ==
  {AppTs, AppEvil, AppBroken, OutTs, BaseContent, Nested, Duplicated, Mismatched, <<"x">>}

InjectOptions == [position : {"start", "end"}, newline : BOOLEAN, indent : BOOLEAN]

\* -------------------------------------------------------------------- state
\* options : the ProcessInjectionsOptions of the call
\* disk    : the filesystem
\* disk0   : the filesystem when processInjections was called
\* results : the results array of processInjections
\* pc      : "loop" inside the for loop, "returned" after return results
\* call    : the arguments and the value of a call of one of the pure functions

VARIABLES options, disk, disk0, results, pc, call

vars == <<options, disk, disk0, results, pc, call>>

NoCall == <<>>

Init ==
  /\ \E w \in Worlds, injections \in Batches :
       /\ options = [projectDir |-> projectDir, injections |-> injections,
                     addonName |-> "auth", context |-> Context,
                     templateBasePath |-> w.templateBasePath]
       /\ disk = w.disk
       /\ disk0 = w.disk
  /\ results = <<>>
  /\ pc = "loop"
  /\ call = NoCall

\* faulty variant: the loop stops at the first failure
loopDone_abort(done, injections) ==
  \/ Len(done) = Len(injections)
  \/ Len(done) > 0 /\ ~done[Len(done)].success

\* for (const injection of injections): no injection is left
loopDone(done, injections) == Len(done) = Len(injections)

\* one iteration of the for loop of processInjections
ProcessNext ==
  /\ pc = "loop"
  /\ ~loopDone(results, options.injections)
  /\ LET injection == options.injections[Len(results) + 1]
         out == processSingleInjection(disk, options.projectDir, injection, options.addonName,
                                       options.context, options.templateBasePath)
     IN  /\ disk' = out.disk
         /\ results' = Append(results, out.result)
  /\ UNCHANGED <<options, disk0, pc, call>>

\* return results
Return ==
  /\ pc = "loop"
  /\ loopDone(results, options.injections)
  /\ pc' = "returned"
  /\ UNCHANGED <<options, disk, disk0, results, call>>

Next == ProcessNext \/ Return

Spec == Init /\ [][Next]_vars

\* processInjections as a function of the filesystem it starts on: the disk
\* and the results after the injections from the i-th on
RECURSIVE processFrom(_, _, _, _)
processFrom(fs, opts, i, done) ==
  LET push(out) == processFrom(out.disk, opts, i + 1, Append(done, out.result))
  IN  IF i > Len(opts.injections) THEN [disk |-> fs, results |-> done]
      ELSE push(processSingleInjection(fs, opts.projectDir, opts.injections[i],
                                       opts.addonName, opts.context, opts.templateBasePath))

processInjections(fs, opts) == processFrom(fs, opts, 1, <<>>)

\* ---------------------------------------------- a call of injectContent

NoOptions == <<>>

InitInject ==
  /\ \E fileContent \in InjectFiles, marker \in {<<"a">>, <<"b">>, <<"e">>},
        injection \in Payloads, opts \in InjectOptions :
       call = [fn |-> "injectContent", fileContent |-> fileContent, marker |-> marker,
               injection |-> injection, options |-> opts, filePath |-> <<"app.ts">>,
               done |-> FALSE, result |-> err(NoError)]
  /\ options = NoOptions
  /\ disk = <<>>
  /\ disk0 = <<>>
  /\ results = <<>>
  /\ pc = "call"

CallInjectContent ==
  /\ pc = "call"
  /\ ~call.done
  /\ call' = [call EXCEPT !.done = TRUE,
                          !.result = injectContent(call.fileContent, call.marker,
                                                   call.injection, call.options,
                                                   call.filePath)]
  /\ UNCHANGED <<options, disk, disk0, results, pc>>

NextInject == CallInjectContent

SpecInject == InitInject /\ [][NextInject]_vars

\* --------------------------------------------------------------- properties

\* the definition the for loop processes next, when there is one
injecting == pc = "loop" /\ Len(results) < Len(options.injections)

nextInjection == options.injections[Len(results) + 1]

\* the file a definition targets, as processSingleInjection finds it
targetNode(fs, injection) == nodeAt(fs, pathJoin(options.projectDir, injection.file))

\* a message holds the piece
mentions(message, piece) == \E k \in 1..Len(message) : message[k] = piece

isText(injection) == injection.json = Undefined /\ injection.marker # Undefined

\* the definition is a text definition with literal content whose rendering
\* is the two marker lines INJECT:e and END:e, its target is a file that
\* parses, and its marker is a region of it
spoofing(fs, injection) ==
  LET region(node) ==
        /\ node.kind = "file"
        /\ LET found(markersResult) ==
                 /\ markersResult.isOk
                 /\ Len(regionOf(markersResult.value, injection.marker)) > 0
           IN  found(parseMarkers(node.content, injection.file))
  IN  /\ isText(injection)
      /\ injection.content # Undefined
      /\ renderTemplate(injection.content, options.context) = EvilPayload
      /\ region(targetNode(fs, injection))

\* the result reports the attempt to create markers
spoofingReported(result) ==
  /\ ~result.success
  /\ mentions(result.error, "Injection attempted to create new markers: ")

\* C1 as stated: a text definition whose rendered payload is the marker lines
\* INJECT:e and END:e, targeting any existing marker of an existing file, gets
\* a failed result whose message reports the attempt to create new markers,
\* and the file is left as it was.
C1_Original ==
  [][(injecting /\ spoofing(disk, nextInjection))
       => /\ spoofingReported(results'[Len(results')])
          /\ disk' = disk]_vars

\* C1 (amended): the same, for a target file none of whose marker lines is
\* already named e: the check compares the sets of marker names before and
\* after, so the payload is refused exactly when its name is new to the file.
C1_Spoofing ==
  [][(/\ injecting
      /\ spoofing(disk, nextInjection)
      /\ <<"e">> \notin getMarkerNames(targetNode(disk, nextInjection).content))
       => /\ spoofingReported(results'[Len(results')])
          /\ disk' = disk]_vars

\* a spoofing payload aimed at a region of a file without the name e was refused
C1_Witness ==
  \E i \in 1..Len(results) :
    /\ spoofing(disk0, options.injections[i])
    /\ <<"e">> \notin getMarkerNames(targetNode(disk0, options.injections[i]).content)
    /\ spoofingReported(results[i])
    /\ targetNode(disk, options.injections[i]) = targetNode(disk0, options.injections[i])

\* the marker names of a node of the filesystem
namesAt(node) == IF node.kind = "file" THEN getMarkerNames(node.content) ELSE {}

\* C2: after any sequence of text injections, successful or failed, the marker
\* names of every file on disk are among the names the file had before the
\* first of them.
C2_NamesNeverGrow ==
  (\A i \in 1..Len(results) : isText(options.injections[i]))
    => \A path \in DOMAIN disk : namesAt(disk[path]) \subseteq namesAt(disk0[path])

\* a payload holding a marker line was written to a file
C2_Witness ==
  /\ \A i \in 1..Len(results) : isText(options.injections[i])
  /\ disk # disk0
  /\ \E i \in 1..Len(results) :
       /\ results[i].success
       /\ options.injections[i].content # Undefined
       /\ Len(findAllMarkers(renderTemplate(options.injections[i].content,
                                            options.context))) > 0

\* C3: an injection whose result has success = false (malformed or duplicate
\* markers, marker not found, target not JSON, template unresolved, spoofing,
\* the write throwing) leaves the content of its target as it was before the
\* attempt and changes no other file.
C3_AllOrNothing ==
  [][(results' # results /\ ~results'[Len(results')].success) => disk' = disk]_vars

\* a write that threw, a refused payload and a missing marker were recorded
C3_Witness ==
  /\ Len(results) = 2
  /\ \E i \in 1..2 : /\ ~results[i].success
                     /\ mentions(results[i].error, "Failed to write file: ")
  /\ \E i \in 1..2 : /\ ~results[i].success
                     /\ ~mentions(results[i].error, "Failed to write file: ")
                     /\ ~mentions(results[i].error, "Target file not found: ")

C5_NeverCreates ==
  /\ \A path \in DOMAIN disk : disk0[path].kind = "none" => disk[path].kind = "none"
  /\ \A i \in 1..Len(results) :
       targetNode(disk0, options.injections[i]).kind = "none"
         => /\ ~results[i].success
            /\ results[i].error = <<"Target file not found: ">> \o options.injections[i].file
            /\ results[i].linesAdded = 0

\* definitions were processed against missing targets, inside and outside
\* the project directory
C5_Witness ==
  /\ Len(results) = 2
  /\ options.injections[1].file # options.injections[2].file
  /\ \A i \in 1..2 : /\ targetNode(disk0, options.injections[i]).kind = "none"
                     /\ targetNode(disk, options.injections[i]).kind = "none"
                     /\ ~results[i].success

\* a sequence without its k-th element
without(seq, k) == SubSeq(seq, 1, k - 1) \o SubSeq(seq, k + 1, Len(seq))

\* C6: taking a failing definition out of the batch changes neither the
\* result of any other definition nor the final content of any file.
C6_FailureIsolated ==
  pc = "returned"
    => \A k \in 1..Len(results) :
         ~results[k].success
           => LET same(rerun) ==
                    /\ rerun.results = without(results, k)
                    /\ rerun.disk = disk
              IN  same(processInjections(disk0, [options EXCEPT
                                                   !.injections = without(@, k)]))

\* a refused definition and a successful one that target the same file
C6_Witness ==
  /\ pc = "returned"
  /\ Len(results) = 2
  /\ options.injections[1].file = options.injections[2].file
  /\ \E k \in 1..2 : /\ mentions(results[k].error,
                                 "Injection attempted to create new markers: ")
                     /\ results[3 - k].success
  /\ disk # disk0

\* the content of the region of a marker in a file that parses
regionContent(content, marker) ==
  LET cut(region) == slice(content, region.contentStartIndex, region.contentEndIndex)
      first(found) == cut(found[1])
      regionsOf(markersResult) == first(regionOf(markersResult.value, marker))
  IN  regionsOf(parseMarkers(content, <<>>))

hasRegion(content, marker) ==
  LET found(markersResult) ==
        markersResult.isOk /\ Len(regionOf(markersResult.value, marker)) > 0
  IN  found(parseMarkers(content, <<>>))

\* the payload of a text definition, or <<>> when it does not resolve
payloadOf(injection) ==
  LET value(contentResult) == IF contentResult.isOk THEN contentResult.value ELSE <<>>
  IN  value(resolveInjectionContent(disk0, injection, options.context,
                                    options.templateBasePath))

\* the definitions all append, with a newline, a payload without marker lines
\* to the same marker of the same file; the file can be read and written,
\* parses and has the marker
accumulating ==
  LET injs == options.injections
      sameTarget(i) ==
        /\ isText(injs[i])
        /\ injs[i].file = injs[1].file
        /\ injs[i].marker = injs[1].marker
        /\ injs[i].position = "end"
        /\ injs[i].newline
        /\ resolveInjectionContent(disk0, injs[i], options.context,
                                   options.templateBasePath).isOk
        /\ Len(findAllMarkers(payloadOf(injs[i]))) = 0
      target(node) ==
        /\ node.kind = "file"
        /\ node.writable
        /\ hasRegion(node.content, injs[1].marker)
  IN  /\ Len(injs) > 0
      /\ \A i \in 1..Len(injs) : sameTarget(i)
      /\ target(targetNode(disk0, injs[1]))

\* the fragments the definitions from the i-th on insert, in their order
RECURSIVE fragmentsFrom(_, _)
fragmentsFrom(i, region) ==
  IF i > Len(options.injections) THEN <<>>
  ELSE processInjection(payloadOf(options.injections[i]),
                        [newline |-> options.injections[i].newline,
                         indent |-> options.injections[i].indent], region)
       \o fragmentsFrom(i + 1, region)

\* C7: k definitions that append (position end, newline true) payloads without
\* marker lines to the same marker all succeed, and the region then holds its
\* original content followed by the k fragments in the order of the
\* definitions.
C7_Accumulates ==
  (pc = "returned" /\ accumulating)
    => LET marker == options.injections[1].marker
           grown(before, after) ==
             /\ hasRegion(after, marker)
             /\ regionContent(after, marker)
                  = regionContent(before, marker)
                    \o fragmentsFrom(1, regionOf(parseMarkers(before, <<>>).value,
                                                 marker)[1])
       IN  /\ \A i \in 1..Len(results) : results[i].success
           /\ grown(targetNode(disk0, options.injections[1]).content,
                    targetNode(disk, options.injections[1]).content)

\* two different payloads were appended to a region that was not empty
C7_Witness ==
  /\ pc = "returned"
  /\ accumulating
  /\ Len(results) = 2
  /\ options.injections[1].content # options.injections[2].content
  /\ options.injections[1].indent # options.injections[2].indent
  /\ Len(regionContent(targetNode(disk0, options.injections[1]).content,
                       options.injections[1].marker)) > 0
  /\ \A i \in 1..2 : results[i].success

\* ------------------------------------------- properties of injectContent

\* injectContent was called and returned ok
injected == pc = "call" /\ call.done /\ call.result.isOk

\* the region of the call's marker in the call's file
callRegion == regionOf(parseMarkers(call.fileContent, call.filePath).value, call.marker)[1]

\* the text the call inserts
callText == processInjection(call.injection, call.options, callRegion)

\* C8: with position end the region holds its existing content and then the
\* injected text, which ends where the END marker line begins; with position
\* start the injected text begins right after the INJECT marker line and the
\* existing content follows it.
C8_PositionOrder ==
  injected
    => LET ordered(out, s, e, n) ==
             IF call.options.position = "end"
             THEN /\ slice(out, s, e) = slice(call.fileContent, s, e)
                  /\ slice(out, e, e + n) = callText
                  /\ sliceFrom(out, e + n) = sliceFrom(call.fileContent, e)
             ELSE /\ slice(out, 0, s) = slice(call.fileContent, 0, s)
                  /\ slice(out, s, s + n) = callText
                  /\ slice(out, s + n, e + n) = slice(call.fileContent, s, e)
       IN  ordered(call.result.value, callRegion.contentStartIndex,
                   callRegion.contentEndIndex, Len(callText))

\* text was put at the start of a region that held content
C8_Witness ==
  /\ injected
  /\ call.options.position = "start"
  /\ callRegion.contentEndIndex > callRegion.contentStartIndex
  /\ Len(call.injection) > 0
  /\ call.result.value # call.fileContent

\* C9: the output begins with the input up to contentStartIndex, ends with the
\* input from contentEndIndex on, still holds the existing content of the
\* region, and is longer than the input by the length of the processed text.
C9_Frame ==
  injected
    => LET framed(out, s, e, n) ==
             /\ Len(out) = Len(call.fileContent) + n
             /\ slice(out, 0, s) = slice(call.fileContent, 0, s)
             /\ sliceFrom(out, e + n) = sliceFrom(call.fileContent, e)
             /\ \E at \in {s, s + n} :
                  slice(out, at, at + (e - s)) = slice(call.fileContent, s, e)
       IN  framed(call.result.value, callRegion.contentStartIndex,
                  callRegion.contentEndIndex, Len(callText))

\* indented text was appended to a region with content, inside a file with
\* text before and after the region
C9_Witness ==
  /\ injected
  /\ call.options.position = "end"
  /\ call.options.indent
  /\ Len(callRegion.indent) > 0
  /\ callRegion.contentEndIndex > callRegion.contentStartIndex
  /\ Len(callText) > Len(call.injection) + 1

\* C10: injecting the empty string with newline = false and indent = false
\* into any marker of a file that parses returns the file content unchanged.
C10_EmptyIsIdentity ==
  (/\ pc = "call"
   /\ call.done
   /\ hasRegion(call.fileContent, call.marker)
   /\ call.injection = <<>>
   /\ ~call.options.newline
   /\ ~call.options.indent)
    => /\ call.result.isOk
       /\ call.result.value = call.fileContent

\* the empty string was injected into a nested region
C10_Witness ==
  /\ injected
  /\ call.fileContent = Nested
  /\ call.marker = <<"b">>
  /\ call.injection = <<>>
  /\ ~call.options.newline
  /\ ~call.options.indent

\* the text the call put into the file: what the output holds, where the
\* position says, beyond the characters of the input
callInserted ==
  LET at == IF call.options.position = "start" THEN callRegion.contentStartIndex
            ELSE callRegion.contentEndIndex
  IN  slice(call.result.value, at,
            at + Len(call.result.value) - Len(call.fileContent))

\* the lines of a text, without the empty line a terminating newline produces
linesOf(text) ==
  LET body(lines) ==
        IF Len(lines[Len(lines)]) = 0 THEN SubSeq(lines, 1, Len(lines) - 1) ELSE lines
  IN  body(split(text))

\* C11: with indent = true and an INJECT line that has leading whitespace,
\* every line of the inserted text is the line of the injection prefixed with
\* exactly that whitespace, and the empty line after a terminating newline has
\* no prefix; with indent = false or an INJECT line without leading
\* whitespace the lines are those of the injection.  (An empty injection has
\* no line: nothing but the newline of the newline option is inserted.)
C11_IndentFidelity ==
  injected
    => LET prefix == IF call.options.indent THEN callRegion.indent ELSE <<>>
           prefixed(given, put) ==
             /\ Len(put) = Len(given)
             /\ \A i \in 1..Len(given) : put[i] = prefix \o given[i]
       IN  IF Len(call.injection) = 0
           THEN callInserted \in {<<>>, <<NL>>}
           ELSE /\ prefixed(linesOf(call.injection), linesOf(callInserted))
                /\ endsWith(call.injection, NL) => endsWith(callInserted, NL)

\* a text of two lines with a terminating newline was indented
C11_Witness ==
  /\ injected
  /\ call.options.indent
  /\ Len(callRegion.indent) > 0
  /\ Len(linesOf(call.injection)) = 2
  /\ endsWith(call.injection, NL)
  /\ Len(callInserted) = Len(call.injection) + 2 * Len(callRegion.indent)

\* the text of the call after indentation
callIndented ==
  IF call.options.indent /\ Len(callRegion.indent) > 0
  THEN applyIndent(call.injection, callRegion.indent) ELSE call.injection

\* C12: with newline = true the inserted text is the (indented) text itself
\* when that ends with a newline and the text with one newline appended when
\* it does not; with newline = false it is the text as given.
C12_NewlinePolicy ==
  injected
    => LET policy(text, put) ==
             IF call.options.newline /\ ~endsWith(text, NL)
             THEN put = text \o <<NL>>
             ELSE put = text
       IN  policy(callIndented, callInserted)

\* a text that ends with a newline was inserted with newline = true
C12_Witness ==
  /\ injected
  /\ call.options.newline
  /\ Len(call.injection) > 1
  /\ endsWith(call.injection, NL)
  /\ callInserted = callIndented

\* C18: on a file whose markers are malformed or duplicated injectContent
\* returns the error parseMarkers returns for the file, whether the requested
\* marker is absent from it or well formed in it; it returns
\* MarkerNotFoundError only when the file parses and has no region of the
\* requested name.
C18_ParseErrorFirst ==
  (pc = "call" /\ call.done)
    => LET propagated(markersResult) ==
             /\ ~markersResult.isOk => call.result = err(markersResult.error)
             /\ call.result.error.name = "MarkerNotFoundError"
                  => /\ markersResult.isOk
                     /\ Len(regionOf(markersResult.value, call.marker)) = 0
       IN  propagated(parseMarkers(call.fileContent, call.filePath))

\* the marker asked for is absent from a file whose other markers are broken
C18_Witness ==
  /\ pc = "call"
  /\ call.done
  /\ call.marker \notin getMarkerNames(call.fileContent)
  /\ call.result.error.name = "MalformedMarkerError"

\* ------------------------------------------------ a call of parseMarkers

MaxLines == 4

\* the lines a parsed file is made of: what the line is and its text
ParseLines ==
  { [type |-> "none", name |-> <<>>, indent |-> <<>>, style |-> "none",
     text |-> <<"x", " ", "//", " ", INJ, "a">>],
    [type |-> "none", name |-> <<>>, indent |-> <<>>, style |-> "none", text |-> <<>>],
    [type |-> "start", name |-> <<"a">>, indent |-> <<>>, style |-> "js",
     text |-> <<"//", " ", INJ, "a">>],
    [type |-> "start", name |-> <<"b">>, indent |-> <<" ">>, style |-> "python",
     text |-> <<" ", "#", INJ, "b", "\t">>],
    [type |-> "end", name |-> <<"a">>, indent |-> <<>>, style |-> "html",
     text |-> <<"<!--", END, "a", " ", "-->">>],
    [type |-> "end", name |-> <<"b">>, indent |-> <<" ">>, style |-> "css",
     text |-> <<" ", "/*", " ", " ", END, "b", "*/">>] }

ParseFiles == UNION {[1..n -> ParseLines] : n \in 0..MaxLines}

\* the content of a file made of the lines
contentOf(lines) == join([i \in 1..Len(lines) |-> lines[i].text])

InitParse ==
  /\ \E lines \in ParseFiles :
       call = [fn |-> "parseMarkers", lines |-> lines, content |-> contentOf(lines),
               filePath |-> <<"app.ts">>, done |-> FALSE, result |-> err(NoError)]
  /\ options = NoOptions
  /\ disk = <<>>
  /\ disk0 = <<>>
  /\ results = <<>>
  /\ pc = "parse"

CallParseMarkers ==
  /\ pc = "parse"
  /\ ~call.done
  /\ call' = [call EXCEPT !.done = TRUE,
                          !.result = parseMarkers(call.content, call.filePath)]
  /\ UNCHANGED <<options, disk, disk0, results, pc>>

NextParse == CallParseMarkers

SpecParse == InitParse /\ [][NextParse]_vars

\* --------------------------------------------- properties of parseMarkers

\* parseMarkers was called and returned
parsedCall == pc = "parse" /\ call.done

\* the 1-based numbers of the INJECT lines of a name among the lines
injectLines(lines, name) ==
  {i \in 1..Len(lines) : lines[i].type = "start" /\ lines[i].name = name}

\* the names with two or more INJECT lines
duplicated(lines) ==
  {lines[i].name : i \in {j \in 1..Len(lines) :
                            /\ lines[j].type = "start"
                            /\ Cardinality(injectLines(lines, lines[j].name)) > 1}}

\* the elements of a set of numbers in ascending order
RECURSIVE ascending(_)
ascending(S) ==
  IF S = {} THEN <<>> ELSE <<Min(S)>> \o ascending(S \ {Min(S)})

\* the marker lines read in document order with the stack of the open INJECT
\* lines (their 1-based numbers): the first END that finds no open INJECT
\* ("stray"), or an open INJECT of another name ("mismatch"), or else the
\* INJECT lines left open ("unclosed"), or none of these ("none")
RECURSIVE nesting(_, _, _)
nesting(lines, i, open) ==
  IF i > Len(lines)
  THEN [fault |-> IF Len(open) > 0 THEN "unclosed" ELSE "none", at |-> 0, open |-> open]
  ELSE IF lines[i].type = "start" THEN nesting(lines, i + 1, Append(open, i))
  ELSE IF lines[i].type = "none" THEN nesting(lines, i + 1, open)
  ELSE IF Len(open) = 0 THEN [fault |-> "stray", at |-> i, open |-> open]
  ELSE IF lines[open[Len(open)]].name # lines[i].name
  THEN [fault |-> "mismatch", at |-> i, open |-> open]
  ELSE nesting(lines, i + 1, SubSeq(open, 1, Len(open) - 1))

\* C13: parseMarkers returns ok exactly when no name is on two INJECT lines
\* and the marker lines are well nested by name; otherwise it returns a
\* DuplicateMarkerError or a MalformedMarkerError and no region map.
C13_OkIffWellFormed ==
  parsedCall
    => /\ call.result.isOk
            <=> /\ duplicated(call.lines) = {}
                /\ nesting(call.lines, 1, <<>>).fault = "none"
       /\ ~call.result.isOk
            => /\ call.result.error.name \in {"DuplicateMarkerError", "MalformedMarkerError"}
               /\ call.result.value = <<>>

\* a file with a region nested in another parsed, and gave both regions
C13_Witness ==
  /\ parsedCall
  /\ call.result.isOk
  /\ Len(call.result.value) = 2
  /\ call.lines[1].type = "start"
  /\ call.lines[2].type = "start"

\* C14: a file with two or more INJECT lines of one name fails with the
\* DuplicateMarkerError that lists the 1-based numbers of all INJECT lines of
\* that name, whatever END lines it has.
C14_DuplicateFirst ==
  (parsedCall /\ duplicated(call.lines) # {})
    => \E name \in duplicated(call.lines) :
         call.result = err(DuplicateMarkerError(call.filePath, name,
                                                ascending(injectLines(call.lines, name))))

\* duplicate INJECT lines after a stray END were reported as duplicates
C14_Witness ==
  /\ parsedCall
  /\ Len(call.lines) = 4
  /\ call.lines[1].type = "end"
  /\ duplicated(call.lines) # {}
  /\ call.result.error.name = "DuplicateMarkerError"
  /\ mentions(call.result.error.message, "Duplicate marker found at lines ")

\* C15: in a file without duplicate INJECT lines, the first END line that
\* meets an open INJECT of another name makes parseMarkers fail with the
\* MalformedMarkerError that names both markers and both 1-based lines; the
\* END closes no INJECT of another name.
C15_NestByName ==
  (/\ parsedCall
   /\ duplicated(call.lines) = {}
   /\ nesting(call.lines, 1, <<>>).fault = "mismatch")
    => LET reported(inject, end) ==
             call.result
               = err(MalformedMarkerError(call.filePath, call.lines[end].name,
                       <<"Mismatched markers: INJECT:">> \o call.lines[inject].name
                       \o <<" at line ", ToString(inject), " closed by END:">>
                       \o call.lines[end].name \o <<" at line ", ToString(end)>>))
           found(walk) == reported(walk.open[Len(walk.open)], walk.at)
       IN  found(nesting(call.lines, 1, <<>>))

\* the interleaved regions INJECT:a, INJECT:b, END:a, END:b were refused
C15_Witness ==
  /\ parsedCall
  /\ Len(call.lines) = 4
  /\ call.lines[1].type = "start" /\ call.lines[1].name = <<"a">>
  /\ call.lines[2].type = "start" /\ call.lines[2].name = <<"b">>
  /\ call.lines[3].type = "end" /\ call.lines[3].name = <<"a">>
  /\ call.lines[4].type = "end" /\ call.lines[4].name = <<"b">>
  /\ call.result.error.name = "MalformedMarkerError"

\* C16: in a file without duplicate INJECT lines whose END lines all match,
\* INJECT lines left open make parseMarkers fail with the MalformedMarkerError
\* that cites the first opened of them by its name and 1-based line.
C16_OutermostUnclosed ==
  (/\ parsedCall
   /\ duplicated(call.lines) = {}
   /\ nesting(call.lines, 1, <<>>).fault = "unclosed")
    => LET reported(inject) ==
             call.result
               = err(MalformedMarkerError(call.filePath, call.lines[inject].name,
                       <<"INJECT marker without matching END at line ",
                         ToString(inject)>>))
           found(walk) == reported(walk.open[1])
       IN  found(nesting(call.lines, 1, <<>>))

\* two INJECT lines were left open after a region was closed
C16_Witness ==
  /\ parsedCall
  /\ duplicated(call.lines) = {}
  /\ nesting(call.lines, 1, <<>>).fault = "unclosed"
  /\ Len(nesting(call.lines, 1, <<>>).open) = 2
  /\ nesting(call.lines, 1, <<>>).open[1] > 1
  /\ ~call.result.isOk

\* the lines from the i-th to the j-th, each with its newline
RECURSIVE linesWithNewlines(_, _, _)
linesWithNewlines(lines, i, j) ==
  IF i > j THEN <<>>
  ELSE lines[i].text \o <<NL>> \o linesWithNewlines(lines, i + 1, j)

\* C17: for every region parseMarkers returns, the file from contentStartIndex
\* to contentEndIndex is the lines strictly between the INJECT line and the
\* END line of the region, each with its newline, without the marker lines;
\* when the END line follows the INJECT line at once the indices are equal.
C17_RegionSlice ==
  (parsedCall /\ call.result.isOk)
    => \A k \in 1..Len(call.result.value) :
         LET delimits(r) ==
               /\ r.startLine + 1 \in injectLines(call.lines, r.name)
               /\ r.endLine + 1 \in 1..Len(call.lines)
               /\ call.lines[r.endLine + 1].type = "end"
               /\ call.lines[r.endLine + 1].name = r.name
               /\ slice(call.content, r.contentStartIndex, r.contentEndIndex)
                    = linesWithNewlines(call.lines, r.startLine + 2, r.endLine)
               /\ r.endLine = r.startLine + 1 => r.contentStartIndex = r.contentEndIndex
         IN  delimits(call.result.value[k])

\* a region that holds a whole region and one that is empty
C17_Witness ==
  /\ parsedCall
  /\ call.result.isOk
  /\ Len(call.lines) = 4
  /\ \E k \in 1..Len(call.result.value) :
       /\ call.result.value[k].startLine = 0
       /\ call.result.value[k].endLine = 3
       /\ call.result.value[k].contentEndIndex > call.result.value[k].contentStartIndex
  /\ \E k \in 1..Len(call.result.value) :
       call.result.value[k].contentEndIndex = call.result.value[k].contentStartIndex

\* ----------------------------------------------- a call of deepMergeJson

MaxItems == 2

\* the same object with its keys in the two orders
KM == Obj(<< <<<<"k">>, Lit("1")>>, <<<<"m">>, Lit("2")>> >>)
MK == Obj(<< <<<<"m">>, Lit("2")>>, <<<<"k">>, Lit("1")>> >>)

MergeItems == {Lit("1"), KM, MK}

MergeArrays == {Arr(items) : items \in UNION {[1..n -> MergeItems] : n \in 0..MaxItems}}

\* the members that are not arrays
MergePlain ==
  { Lit("1"), Str(<<"a">>), Lit("null"),
    Obj(<<>>),
    Obj(<< <<<<"m">>, Lit("1")>> >>),
    Obj(<< <<<<"m">>, Arr(<<Lit("1")>>)>> >>),
    Obj(<< <<<<"m">>, Arr(<<Lit("2"), Lit("1")>>)>>, <<<<"k">>, Lit("2")>> >>),
    Obj(<< <<<<"m">>, Obj(<< <<<<"m">>, Lit("2")>> >>)>> >>) }

MergeMembers == MergePlain \cup MergeArrays

MergeObjects ==
  {Obj(<<>>)}
  \cup {Obj(<< <<<<"k">>, v>> >>) : v \in MergeMembers}
  \cup {Obj(<< <<<<"k">>, v>>, <<<<"n">>, w>> >>) :
          v \in MergePlain,
          w \in {Lit("2"), Arr(<<Lit("2")>>), Obj(<< <<<<"m">>, Lit("2")>> >>)}}

InitMerge ==
  /\ \E target \in MergeObjects, source \in MergeObjects :
       LET loaded(t, s) ==
             call = [fn |-> "deepMergeJson", target |-> target, source |-> source,
                     targetRef |-> t.ref, sourceRef |-> s.ref, heap0 |-> s.heap,
                     heap |-> s.heap, done |-> FALSE, result |-> Undefined,
                     resultRef |-> Undefined]
           second(t) == loaded(t, store(t.heap, source))
       IN  second(store(<<>>, target))
  /\ options = NoOptions
  /\ disk = <<>>
  /\ disk0 = <<>>
  /\ results = <<>>
  /\ pc = "merge"

CallDeepMergeJson ==
  /\ pc = "merge"
  /\ ~call.done
  /\ LET returned(merged) ==
           call' = [call EXCEPT !.done = TRUE,
                                !.heap = merged.heap,
                                !.resultRef = merged.ref,
                                !.result = deepMergeJson(call.target, call.source)]
     IN  returned(deepMergeJsonRef(call.heap, call.targetRef, call.sourceRef))
  /\ UNCHANGED <<options, disk, disk0, results, pc>>

NextMerge == CallDeepMergeJson

SpecMerge == InitMerge /\ [][NextMerge]_vars

\* -------------------------------------------- properties of deepMergeJson

\* deepMergeJson was called and returned
merged == pc = "merge" /\ call.done

\* two JSON values are structurally equal: the same members under the same
\* keys, whatever the order of the keys, and the same elements in the same
\* order
RECURSIVE sameJson(_, _)
sameJson(a, b) ==
  /\ a[1] = b[1]
  /\ CASE isObject(a) ->
            /\ {keysOf(a)[i] : i \in 1..Len(a[2])} = {keysOf(b)[i] : i \in 1..Len(b[2])}
            /\ \A i \in 1..Len(a[2]) : sameJson(a[2][i][2], getKey(b, a[2][i][1]))
       [] isArray(a) ->
            /\ Len(a[2]) = Len(b[2])
            /\ \A i \in 1..Len(a[2]) : sameJson(a[2][i], b[2][i])
       [] OTHER -> a = b

\* two elements of an array count as equal: by their JSON.stringify text, or
\* structurally
equalItems(a, b, byText) ==
  IF byText THEN stringify(a, 0) = stringify(b, 0) ELSE sameJson(a, b)

\* the elements without those equal to an earlier one
firstOccurrences(items, byText) ==
  LET kept == {i \in 1..Len(items) :
                 \A j \in 1..(i - 1) : ~equalItems(items[j], items[i], byText)}
  IN  [n \in 1..Cardinality(kept) |-> items[ascending(kept)[n]]]

\* the reference merge
RECURSIVE referenceMerge(_, _, _)
referenceMerge(target, source, byText) ==
  LET member(key) ==
        IF ~hasKey(source, key) THEN getKey(target, key)
        ELSE IF hasKey(target, key) /\ isObject(getKey(target, key))
                /\ isObject(getKey(source, key))
        THEN referenceMerge(getKey(target, key), getKey(source, key), byText)
        ELSE IF hasKey(target, key) /\ isArray(getKey(target, key))
                /\ isArray(getKey(source, key))
        THEN Arr(firstOccurrences(getKey(target, key)[2] \o getKey(source, key)[2], byText))
        ELSE getKey(source, key)
      keys == keysOf(target)
              \o SelectSeq(keysOf(source), LAMBDA key : ~hasKey(target, key))
  IN  Obj([i \in 1..Len(keys) |-> <<keys[i], member(keys[i])>>])

\* C19 as stated: deepMergeJson(target, source) is the reference merge, in
\* which two arrays become the elements of the target's followed by those of
\* the source's, without the later ones structurally equal to an earlier one.
C19_Original ==
  merged => sameJson(call.result, referenceMerge(call.target, call.source, FALSE))

\* C19 (amended): the same, with two elements of the arrays taken as equal
\* when their JSON.stringify texts are equal, so that two objects with the
\* same members in different key orders are both kept.
C19_ReferenceMerge ==
  merged
    => LET same(reference) ==
             /\ sameJson(call.result, reference)
             /\ sameJson(deref(call.heap, call.resultRef), reference)
       IN  same(referenceMerge(call.target, call.source, TRUE))

\* arrays that hold the same object in two key orders, and a repeated
\* element, were merged
C19_Witness ==
  /\ merged
  /\ getKey(call.target, <<"k">>) = Arr(<<KM, Lit("1")>>)
  /\ getKey(call.source, <<"k">>) = Arr(<<Lit("1"), MK>>)
  /\ getKey(call.result, <<"k">>) = Arr(<<KM, Lit("1"), MK>>)

\* C20: deepMergeJson changes neither of its arguments: after the call the
\* target and the source, and every object and array inside them, are equal
\* to what they were before the call.
C20_NoMutation ==
  merged
    => /\ \A a \in 1..Len(call.heap0) : call.heap[a] = call.heap0[a]
       /\ deref(call.heap, call.targetRef) = call.target
       /\ deref(call.heap, call.sourceRef) = call.source

\* objects nested in the target and in the source were merged into a result
\* different from both
C20_Witness ==
  /\ merged
  /\ isObject(getKey(call.target, <<"k">>))
  /\ isObject(getKey(call.source, <<"k">>))
  /\ getKey(call.result, <<"k">>) # getKey(call.target, <<"k">>)
  /\ getKey(call.result, <<"k">>) # getKey(call.source, <<"k">>)
  /\ Len(call.heap) > Len(call.heap0)

\* --------------------------------------------------- a call of injectJson

K == <<"k">>
M == <<"m">>
N == <<"n">>

\* the documents of the target file
JsonDocs ==
  { Obj(<<>>),
    Obj(<< <<K, Lit("1")>> >>),
    Obj(<< <<K, Obj(<< <<M, Lit("1")>> >>)>> >>),
    Obj(<< <<K, Obj(<< <<M, Obj(<< <<N, Lit("1")>> >>)>> >>)>>, <<N, Lit("2")>> >>),
    Obj(<< <<N, Str(<<"a">>)>>, <<K, Arr(<<Lit("1")>>)>> >>),
    Obj(<< <<M, Lit("2")>>, <<K, Obj(<< <<M, Arr(<<Lit("1"), Lit("2")>>)>> >>)>> >>),
    Arr(<<Lit("1")>>) }

\* a target file: the document it was written from (Undefined when the text
\* is not JSON) and its text, indented or compact
JsonFiles ==
  {[doc |-> d, text |-> stringify(d, 2) \o <<NL>>] : d \in JsonDocs}
  \cup {[doc |-> d, text |-> stringify(d, 0)] : d \in JsonDocs}
  \cup {[doc |-> Undefined, text |-> <<"{", "\"", "k", "\"", ":">>]}

\* the jsonPath $.s1.s2...sn of the segments
Dollar(segments) ==
  [form |-> "dollar", segments |-> segments, text |-> <<"$", ".">> \o joinWith(segments, ".")]

\* a jsonPath without the $. prefix
Bare(text) == [form |-> "bare", segments |-> <<text>>, text |-> text]

\* the jsonPath of a definition: none, the empty string, $.k, $.k.m, $.n.m,
\* $.m.k.n, "$.", $.k..m, k, k.m
JsonPaths ==
  { [form |-> "none", segments |-> <<>>, text |-> Undefined],
    [form |-> "none", segments |-> <<>>, text |-> <<>>],
    Dollar(<<K>>), Dollar(<<K, M>>), Dollar(<<N, M>>), Dollar(<<M, K, N>>),
    Dollar(<< <<>> >>), Dollar(<<K, <<>>, M>>),
    Bare(K), Bare(<<"k", ".", "m">>) }

\* the json of a definition
JsonFragments ==
  { Obj(<< <<M, Lit("2")>> >>),
    Obj(<< <<K, Arr(<<Lit("1"), Lit("1")>>)>> >>),
    Obj(<< <<M, Arr(<<Lit("2"), Lit("1")>>)>>, <<K, Obj(<< <<N, Lit("2")>> >>)>> >>),
    Obj(<< <<M, Obj(<< <<K, Arr(<<Lit("2"), Lit("2")>>)>> >>)>> >>) }

InitJson ==
  /\ \E file \in JsonFiles, path \in JsonPaths, fragment \in JsonFragments :
       call = [fn |-> "injectJson", doc |-> file.doc, fileContent |-> file.text,
               path |-> path, jsonPath |-> path.text, jsonToMerge |-> fragment,
               filePath |-> <<"pkg.json">>, done |-> FALSE, result |-> err(NoError),
               again |-> FALSE, second |-> err(NoError)]
  /\ options = NoOptions
  /\ disk = <<>>
  /\ disk0 = <<>>
  /\ results = <<>>
  /\ pc = "json"

CallInjectJson ==
  /\ pc = "json"
  /\ ~call.done
  /\ call' = [call EXCEPT !.done = TRUE,
                          !.result = injectJson(call.fileContent, call.jsonPath,
                                                call.jsonToMerge, call.filePath)]
  /\ UNCHANGED <<options, disk, disk0, results, pc>>

\* the same injection applied to the content that the first one returned
CallInjectJsonAgain ==
  /\ pc = "json"
  /\ call.done
  /\ call.result.isOk
  /\ ~call.again
  /\ call' = [call EXCEPT !.again = TRUE,
                          !.second = injectJson(call.result.value, call.jsonPath,
                                                call.jsonToMerge, call.filePath)]
  /\ UNCHANGED <<options, disk, disk0, results, pc>>

NextJson == CallInjectJson \/ CallInjectJsonAgain

SpecJson == InitJson /\ [][NextJson]_vars

\* ----------------------------------------------- properties of injectJson

\* injectJson was called and returned
jsonInjected == pc = "json" /\ call.done

\* the value of a document under the keys, Undefined where there is none
RECURSIVE valueAt(_, _)
valueAt(doc, keys) ==
  IF Len(keys) = 0 THEN doc
  ELSE IF ~isObject(doc) \/ ~hasKey(doc, Head(keys)) THEN Undefined
  ELSE valueAt(getKey(doc, Head(keys)), Tail(keys))

keySet(val) == IF isObject(val) THEN {keysOf(val)[i] : i \in 1..Len(val[2])} ELSE {}

\* the jsonPath of the call is $.k1.....kn
keyPath ==
  /\ call.path.form = "dollar"
  /\ \A i \in 1..Len(call.path.segments) : call.path.segments[i] # <<>>

\* C21: injectJson of an object document with a jsonPath $.k1.....kn returns
\* the text of a document that holds, under the path, deepMergeJson(existing,
\* fragment) when the existing value is a non-array object and the fragment
\* otherwise; every value on the way to it is an object with the keys it had
\* before and the key of the path, and its other keys keep their values.
\* Without a jsonPath the result is the text of deepMergeJson(document,
\* fragment).
C21_InjectJson ==
  jsonInjected /\ isObject(call.doc)
    => LET off(before, after, key) ==
             /\ isObject(after)
             /\ keySet(after) = keySet(before) \cup {key}
             /\ \A k \in keySet(before) \ {key} : getKey(after, k) = getKey(before, k)
           atPath(out, keys, existing) ==
             /\ valueAt(out, keys)
                  = IF isObject(existing) THEN deepMergeJson(existing, call.jsonToMerge)
                    ELSE call.jsonToMerge
             /\ \A i \in 0..(Len(keys) - 1) :
                  off(valueAt(call.doc, SubSeq(keys, 1, i)), valueAt(out, SubSeq(keys, 1, i)),
                      keys[i + 1])
           returned(out) ==
             /\ call.result.isOk
             /\ out.isOk
             /\ call.result.value = stringify(out.value, 2) \o <<NL>>
             /\ keyPath => atPath(out.value, call.path.segments,
                                  valueAt(call.doc, call.path.segments))
             /\ call.jsonPath = Undefined => out.value = deepMergeJson(call.doc, call.jsonToMerge)
       IN  returned(jsonParse(call.result.value))

\* the fragment was merged into the object under $.k.m, beside a key that
\* kept its value
C21_Witness ==
  /\ jsonInjected
  /\ call.result.isOk
  /\ call.path.segments = <<K, M>>
  /\ isObject(valueAt(call.doc, <<K, M>>))
  /\ hasKey(call.doc, N)
  /\ call.jsonToMerge = Obj(<< <<M, Lit("2")>> >>)
  /\ valueAt(jsonParse(call.result.value).value, <<K, M>>)
       = Obj(<< <<N, Lit("1")>>, <<M, Lit("2")>> >>)

\* injectJson was applied a second time, to the content the first call
\* returned
reinjected == pc = "json" /\ call.again

\* no array that is a member of the object, or of an object inside it, holds
\* two elements with the same JSON.stringify text
RECURSIVE noRepeats(_)
noRepeats(val) ==
  CASE isObject(val) -> \A i \in 1..Len(val[2]) : noRepeats(val[2][i][2])
    [] isArray(val) ->
         \A i, j \in 1..Len(val[2]) :
           i < j => stringify(val[2][i], 0) # stringify(val[2][j], 0)
    [] OTHER -> TRUE

\* C28 as stated: deepMergeJson(deepMergeJson(t, s), s) = deepMergeJson(t, s)
\* for every document t and fragment s, and the same injectJson applied twice
\* returns the text it returned the first time.
C28_Original ==
  /\ jsonInjected /\ isObject(call.doc)
       => LET twice(once) == deepMergeJson(once, call.jsonToMerge) = once
          IN  twice(deepMergeJson(call.doc, call.jsonToMerge))
  /\ reinjected => call.second.isOk /\ call.second.value = call.result.value

\* C28 (amended): the two equalities hold when no array of the fragment
\* reached through object keys holds two elements with the same
\* JSON.stringify text; an array with a repeated element is stored as it is by
\* the first merge and loses the repetition in the second.
C28_Idempotent ==
  noRepeats(call.jsonToMerge)
    => /\ jsonInjected /\ isObject(call.doc)
            => LET twice(once) == deepMergeJson(once, call.jsonToMerge) = once
               IN  twice(deepMergeJson(call.doc, call.jsonToMerge))
       /\ reinjected => call.second.isOk /\ call.second.value = call.result.value

\* a fragment with an array was merged twice into an object that holds an
\* array under the same key, and the first merge changed the file
C28_Witness ==
  /\ reinjected
  /\ noRepeats(call.jsonToMerge)
  /\ call.path.segments = <<K>>
  /\ isArray(valueAt(call.doc, <<K, M>>))
  /\ isArray(getKey(call.jsonToMerge, M))
  /\ call.result.value # call.fileContent
  /\ call.second.value = call.result.value
  /\ valueAt(jsonParse(call.second.value).value, <<K, M>>) = Arr(<<Lit("1"), Lit("2")>>)

\* C29 as stated: for every non-empty jsonPath, a successful injectJson
\* returns a document that holds every key of the fragment at the location
\* the path addresses (the segments of the path, with or without the empty
\* ones).  The code returns the document without the fragment when a segment
\* is empty.
C29_Original ==
  jsonInjected /\ call.result.isOk /\ call.path.form # "none"
    => LET present(out, keys) == keySet(call.jsonToMerge) \subseteq keySet(valueAt(out, keys))
           addressed(out) ==
             \/ present(out, call.path.segments)
             \/ present(out, SelectSeq(call.path.segments, LAMBDA segment : segment # <<>>))
       IN  addressed(jsonParse(call.result.value).value)

\* ------------------------------- a call of InjectionDefinitionSchema.safeParse
\* The value parsed is an object of template.json: given is the set of the
\* keys it has, value holds what is under them.

InjectionPositionSchema == {"start", "end"}

\* the result of safeParse: the definition with its defaults, or the issues
InjectionDefinitionSchema(data) ==
  LET has(key) == key \in data.given
      optional(key) == IF has(key) THEN data.value[key] ELSE Undefined
      default(key, value) == IF has(key) THEN data.value[key] ELSE value
      object ==
        /\ has("file") /\ Len(data.value.file) >= 1
        /\ has("marker") => /\ Len(data.value.marker) >= 1
                            /\ \A i \in 1..Len(data.value.marker) :
                                 data.value.marker[i] \in NameChars
        /\ has("json") => isObject(data.value.json)
        /\ has("position") => data.value.position \in InjectionPositionSchema
      refinements ==
        << [holds |-> has("content") \/ has("template") \/ has("json"),
            message |-> "One of content, template, or json is required"],
           [holds |-> ~(has("json") /\ has("marker")),
            message |-> "JSON injection should not use markers, use jsonPath instead"],
           [holds |-> ~(~has("json") /\ ~has("marker")),
            message |-> "Text injection requires a marker"] >>
      failed == SelectSeq(refinements, LAMBDA refinement : ~refinement.holds)
      issues == IF object THEN [i \in 1..Len(failed) |-> failed[i].message]
                ELSE <<"Invalid input">>
  IN  IF Len(issues) > 0 THEN [success |-> FALSE, data |-> Undefined, issues |-> issues]
      ELSE [success |-> TRUE,
            data |-> Def(data.value.file, optional("marker"), optional("content"),
                         optional("template"), optional("json"), optional("jsonPath"),
                         default("position", "end"), default("newline", TRUE),
                         default("indent", TRUE)),
            issues |-> <<>>]

SchemaKeys ==
  {"file", "marker", "content", "template", "json", "jsonPath", "position", "newline"}

\* the objects parsed: any of the keys, an empty and a non-empty file and
\* content, a marker with and without a space, a position in and out of the
\* enumeration
SchemaInputs ==
  { [given |-> given,
     value |-> [file |-> file, marker |-> marker, content |-> content,
                template |-> <<"t.ejs">>, json |-> Fragment,
                jsonPath |-> <<"$", ".", "k">>, position |-> position,
                newline |-> FALSE, indent |-> FALSE]] :
      given \in SUBSET SchemaKeys,
      file \in {<<"app.ts">>, <<>>},
      marker \in {<<"a">>, <<"a", " ">>},
      content \in {<<"x">>, <<>>},
      position \in {"start", "middle"} }

InitSchema ==
  /\ \E data \in SchemaInputs :
       call = [fn |-> "safeParse", data |-> data, done |-> FALSE,
               result |-> [success |-> FALSE, data |-> Undefined, issues |-> <<>>]]
  /\ options = NoOptions
  /\ disk = <<>>
  /\ disk0 = <<>>
  /\ results = <<>>
  /\ pc = "schema"

CallSafeParse ==
  /\ pc = "schema"
  /\ ~call.done
  /\ call' = [call EXCEPT !.done = TRUE, !.result = InjectionDefinitionSchema(call.data)]
  /\ UNCHANGED <<options, disk, disk0, results, pc>>

NextSchema == CallSafeParse

SpecSchema == InitSchema /\ [][NextSchema]_vars

\* ------------------------------ properties of InjectionDefinitionSchema

\* safeParse was called and returned
schemaParsed == pc = "schema" /\ call.done

\* C22 as stated: a definition is accepted only if exactly one of content,
\* template and json is set, a definition with json has no marker and a
\* definition without json has a marker.  The schema asks for at least one of
\* content, template and json, and accepts a definition with two of them.
C22_Original ==
  schemaParsed /\ call.result.success
    => /\ Cardinality(call.data.given \cap {"content", "template", "json"}) = 1
       /\ "json" \in call.data.given => "marker" \notin call.data.given
       /\ "json" \notin call.data.given => "marker" \in call.data.given

\* ------------------------------------------ a call of validateNoNewMarkers

MaxBefore == 2

MaxAfter == 2

SnapshotsBefore == UNION {[1..n -> ParseLines] : n \in 0..MaxBefore}

SnapshotsAfter == UNION {[1..n -> ParseLines] : n \in 0..MaxAfter}

InitValidate ==
  /\ \E before \in SnapshotsBefore, after \in SnapshotsAfter :
       call = [fn |-> "validateNoNewMarkers", before |-> before, after |-> after,
               beforeContent |-> contentOf(before), afterContent |-> contentOf(after),
               filePath |-> <<"app.ts">>, currentMarker |-> <<"a">>,
               done |-> FALSE, result |-> err(NoError)]
  /\ options = NoOptions
  /\ disk = <<>>
  /\ disk0 = <<>>
  /\ results = <<>>
  /\ pc = "validate"

CallValidateNoNewMarkers ==
  /\ pc = "validate"
  /\ ~call.done
  /\ call' = [call EXCEPT !.done = TRUE,
                          !.result = validateNoNewMarkers(call.beforeContent,
                                                          call.afterContent,
                                                          call.filePath, call.currentMarker)]
  /\ UNCHANGED <<options, disk, disk0, results, pc>>

NextValidate == CallValidateNoNewMarkers

SpecValidate == InitValidate /\ [][NextValidate]_vars

\* ------------------------------------- properties of validateNoNewMarkers

\* validateNoNewMarkers was called and returned
validated == pc = "validate" /\ call.done

\* the names on the INJECT and END lines
markerNamesOf(lines) ==
  {lines[i].name : i \in {k \in 1..Len(lines) : lines[k].type \in {"start", "end"}}}

\* the marker lines of after that are the first with their name, the name
\* being on no marker line of before
firstNewLines(before, after) ==
  {i \in 1..Len(after) :
     /\ after[i].type \in {"start", "end"}
     /\ after[i].name \notin markerNamesOf(before)
     /\ \A j \in 1..(i - 1) :
          after[j].type \in {"start", "end"} => after[j].name # after[i].name}

\* C23: validateNoNewMarkers(before, after) returns an error exactly when a
\* name is on an INJECT or END line of after and on no marker line of before,
\* whether or not the markers of after pair up; the error is a
\* MarkerSpoofingError whose message lists each of these names once, and no
\* other name.
C23_NewNamesOnly ==
  validated
    => LET listed(new) ==
             /\ call.result.isOk <=> new = {}
             /\ ~call.result.isOk
                  => /\ call.result.error.name = "MarkerSpoofingError"
                     /\ call.result.error.message
                          = <<"Injection failed: ",
                              "Injection attempted to create new markers: ">>
                            \o nameList([n \in 1..Cardinality(new) |->
                                           call.after[ascending(new)[n]].name])
                            \o <<" (file: ">> \o call.filePath
                            \o <<", marker: ">> \o call.currentMarker \o <<")">>
       IN  listed(firstNewLines(call.before, call.after))

\* two names were new, on an END line and an INJECT line that do not pair up
C23_Witness ==
  /\ validated
  /\ ~call.result.isOk
  /\ markerNamesOf(call.before) = {}
  /\ Len(call.after) = 2
  /\ call.after[1].type = "end" /\ call.after[1].name = <<"b">>
  /\ call.after[2].type = "start" /\ call.after[2].name = <<"a">>
  /\ mentions(call.result.error.message, "b")
  /\ mentions(call.result.error.message, "a")

\* ------------------------------------ further properties of processInjections

\* the path is inside the directory
under(path, dir) ==
  /\ Len(path) > Len(dir) + 1
  /\ SubSeq(path, 1, Len(dir)) = dir
  /\ path[Len(dir) + 1] = "/"

\* C24 as stated: whatever the file field of a definition, the processor
\* reads and writes under projectDir only, so a file outside the project
\* directory is as it was when processInjections was called.  path.join
\* resolves the .. segments of the file field, and the file it names outside
\* projectDir is read and overwritten.
C24_Original ==
  \A path \in DOMAIN disk : ~under(path, options.projectDir) => disk[path] = disk0[path]

\* a step of the for loop: the definition it processes, the file that
\* definition targets before and after the step, and the result it appends
processing(step(_, _, _, _)) ==
  pc = "loop" /\ results' # results
    => step(nextInjection, targetNode(disk, nextInjection), targetNode(disk', nextInjection),
            results'[Len(results')])

\* C25: a step of the text branch that writes the target file writes the
\* content injectContent returned for the content read, and
\* validateNoNewMarkers accepts the pair (content read, content written); a
\* definition with a json field is processed by the JSON branch whatever its
\* content, template and marker: the file is written with what injectJson
\* returned whenever injectJson succeeds and the file can be written, with
\* nothing else asked.
C25_ValidatedWrite ==
  [][processing(LAMBDA injection, before, after, result :
       LET marker == IF injection.marker = Undefined THEN <<"json">> ELSE injection.marker
           text(payload) ==
             /\ payload.isOk
             /\ validateNoNewMarkers(before.content, after.content, injection.file,
                                     marker).isOk
             /\ ok(after.content)
                  = injectContent(before.content, marker, payload.value,
                                  [position |-> injection.position,
                                   newline |-> injection.newline,
                                   indent |-> injection.indent], injection.file)
           json(jsonResult) ==
             /\ after # before => jsonResult.isOk /\ after.content = jsonResult.value
             /\ before.kind = "file" /\ before.writable /\ jsonResult.isOk
                  => result.success /\ after.content = jsonResult.value
       IN  IF injection.json # Undefined
           THEN json(injectJson(before.content, injection.jsonPath, injection.json,
                                injection.file))
           ELSE after # before
                  => text(resolveInjectionContent(disk, injection, options.context,
                                                  options.templateBasePath)))]_vars

\* a text definition was written after the check, and a definition with a
\* json, a content and a marker was written by the JSON branch
C25_Witness ==
  /\ Len(results) = 2
  /\ isText(options.injections[1])
  /\ results[1].success
  /\ targetNode(disk, options.injections[1]) # targetNode(disk0, options.injections[1])
  /\ options.injections[2].json # Undefined
  /\ options.injections[2].content # Undefined
  /\ options.injections[2].marker # Undefined
  /\ results[2].success
  /\ targetNode(disk, options.injections[2]) # targetNode(disk0, options.injections[2])

\* the number of newlines of a text
newlines(text) == Cardinality({k \in 1..Len(text) : text[k] = NL})

\* C26: a failed result has linesAdded 0; a successful text injection has
\* linesAdded equal to the number of newline-separated pieces of the rendered
\* payload (its newlines plus one), minus one when the payload ends with a
\* newline; a successful JSON injection has linesAdded equal to the line
\* count of the new file content minus that of the old.
C26_LinesAdded ==
  [][processing(LAMBDA injection, before, after, result :
       LET rendered(payload) ==
             result.linesAdded
               = newlines(payload) + 1
                 - (IF Len(payload) > 0 /\ payload[Len(payload)] = NL THEN 1 ELSE 0)
       IN  /\ ~result.success => result.linesAdded = 0
           /\ result.success /\ injection.json = Undefined
                => rendered(resolveInjectionContent(disk, injection, options.context,
                                                    options.templateBasePath).value)
           /\ result.success /\ injection.json # Undefined
                => result.linesAdded
                     = (newlines(after.content) + 1) - (newlines(before.content) + 1))]_vars

\* a template whose rendering ends with a newline counted one line, and a
\* payload of two lines without a final newline counted two
C26_Witness ==
  /\ Len(results) = 2
  /\ options.injections[1].template # Undefined
  /\ results[1].success /\ results[1].linesAdded = 1
  /\ options.injections[2].content = <<"b", NL, "x">>
  /\ results[2].success /\ results[2].linesAdded = 2

\* the names of the regions of a content, when it parses
regionNames(content) ==
  LET names(markersResult) ==
        {markersResult.value[i].name : i \in 1..Len(markersResult.value)}
  IN  names(parseMarkers(content, <<>>))

\* parseMarkers succeeds on the content after, with the regions of the
\* content before
sameRegions(before, after) ==
  /\ parseMarkers(after, <<>>).isOk
  /\ regionNames(after) = regionNames(before)

\* C27 as stated: after every text injection that processInjections reports
\* as successful, parseMarkers succeeds on the new content of the file and
\* returns the region names it returned before.
C27_Original ==
  [][processing(LAMBDA injection, before, after, result :
       result.success /\ injection.json = Undefined
         => sameRegions(before.content, after.content))]_vars

\* C27 (amended): the same, for a payload that holds no marker line and is
\* inserted as whole lines: it is empty, or ends with a newline, or newline
\* is set.  A payload without final newline and with newline false is joined
\* to the line after it, which is the END line when the position is end or
\* the region is empty; a payload with a marker line of a name the file
\* already has passes validateNoNewMarkers and unbalances the markers.
C27_WholeLines ==
  [][processing(LAMBDA injection, before, after, result :
       LET whole(payload) ==
             /\ Len(findAllMarkers(payload)) = 0
             /\ \/ Len(payload) = 0
                \/ injection.newline
                \/ payload[Len(payload)] = NL
       IN  /\ result.success
           /\ injection.json = Undefined
           /\ whole(resolveInjectionContent(disk, injection, options.context,
                                            options.templateBasePath).value)
           => sameRegions(before.content, after.content))]_vars

\* two payloads were written into the regions of a file that still parses
\* with both regions
C27_Witness ==
  /\ Len(results) = 2
  /\ \A i \in 1..2 : /\ results[i].success
                     /\ isText(options.injections[i])
                     /\ options.injections[i].newline
                     /\ options.injections[i].file = <<"app.ts">>
  /\ options.injections[1].marker # options.injections[2].marker
  /\ disk[AppPath].content # disk0[AppPath].content
  /\ sameRegions(disk0[AppPath].content, disk[AppPath].content)
  /\ regionNames(disk[AppPath].content) = {<<"a">>, <<"b">>}

\* ------------------------------------------------ the region map as a whole

\* the lines of a kind
linesOfType(lines, type) == {i \in 1..Len(lines) : lines[i].type = type}

\* the offset at which the i-th line starts
RECURSIVE offsetOf(_, _)
offsetOf(lines, i) ==
  IF i <= 1 THEN 0 ELSE offsetOf(lines, i - 1) + Len(lines[i - 1].text) + 1

\* C30: when parseMarkers succeeds, the region map has exactly one region
\* for each INJECT line of the file, and the file has as many END lines; every
\* region has startLine < endLine and contentStartIndex <= contentEndIndex,
\* and the indent and the commentStyle of its INJECT line; two regions are
\* disjoint, or the marker lines of one lie strictly inside the content of
\* the other.
C30_RegionMap ==
  (parsedCall /\ call.result.isOk)
    => LET inside(r, s) ==
             /\ s.startLine < r.startLine
             /\ r.endLine < s.endLine
             /\ s.contentStartIndex <= offsetOf(call.lines, r.startLine + 1)
             /\ offsetOf(call.lines, r.endLine + 1) + Len(call.lines[r.endLine + 1].text)
                  < s.contentEndIndex
             /\ s.contentStartIndex < r.contentStartIndex
             /\ r.contentEndIndex < s.contentEndIndex
           shaped(r) ==
             /\ r.startLine < r.endLine
             /\ r.contentStartIndex <= r.contentEndIndex
             /\ r.indent = call.lines[r.startLine + 1].indent
             /\ r.commentStyle = call.lines[r.startLine + 1].style
           map(regions) ==
             /\ Len(regions) = Cardinality(linesOfType(call.lines, "start"))
             /\ Len(regions) = Cardinality(linesOfType(call.lines, "end"))
             /\ {regions[k].startLine + 1 : k \in 1..Len(regions)}
                  = linesOfType(call.lines, "start")
             /\ \A k \in 1..Len(regions) : shaped(regions[k])
             /\ \A k, n \in 1..Len(regions) :
                  k # n => \/ regions[k].endLine < regions[n].startLine
                           \/ regions[n].endLine < regions[k].startLine
                           \/ inside(regions[k], regions[n])
                           \/ inside(regions[n], regions[k])
       IN  map(call.result.value)

\* an indented region of one dialect closed in another, inside a region
C30_Witness ==
  /\ parsedCall
  /\ call.result.isOk
  /\ Len(call.result.value) = 2
  /\ \E k, n \in 1..2 :
       /\ call.result.value[k].name = <<"b">>
       /\ call.result.value[k].indent = <<" ">>
       /\ call.result.value[k].commentStyle = "python"
       /\ call.lines[call.result.value[k].endLine + 1].style = "css"
       /\ call.result.value[n].startLine < call.result.value[k].startLine
       /\ call.result.value[k].endLine < call.result.value[n].endLine

=============================================================================
